---- MODULE Spec2Model ----
(***************************************************************************)
(* Receipt review state and reconciliation engine of tabulate:             *)
(* the reviewReducer transition function, the dirtiness rule, the balance  *)
(* verification of the review page, the local-item allocator and the       *)
(* save-payload builder of ReviewReceipt.handleSave.                       *)
(*                                                                         *)
(* Money is fixed-point: one unit is one mill (0.001 of the currency), so  *)
(* 0.02 is 20 and a cent is 10.  Unit prices need not be whole cents (the  *)
(* table passes newLineTotal / quantity), which is why the unit is finer   *)
(* than a cent.  IEEE rounding of the JavaScript doubles is not modelled.  *)
(*                                                                         *)
(* A nullable number is <<>> (null) or <<v>>; a nullable string is NullStr *)
(* or the string.                                                          *)
(***************************************************************************)
EXTENDS Integers, Sequences, FiniteSets, TLC

VARIABLES
    receipt,            \* the receipt prop of ReviewReceipt (the baseline)
    isFreshUpload,      \* the session was opened from a fresh upload
    state,              \* ReviewState held by useReducer
    localItems,         \* useState<LocalItem[]>
    nextTempIdCounter,  \* module-level _nextTempId of LineItemsTable
    issued,             \* history: the values nextTempId() returned, in order
    storeName,          \* useState storeName header
    receiptDate,        \* useState receiptDate header
    saving,             \* useState busy flag
    dateError,          \* useState date validation flag
    inflight,           \* bodies handed to onSave whose promise is pending
    refetchDue,         \* a successful save invalidated the receipt query
    fetched,            \* data of the useReceipt query of the route's id, if any
    route,              \* "review" while the page is mounted
    touched,            \* history: what the user did since the last Reset
    lastOp,             \* history: the handler that ran last, with its item
    steps,              \* history: number of user actions so far
    routeId,            \* receiptId of the route (the id ReviewLoader is given)
    loading,            \* ReviewLoader shows "Loading receipt..." (no page mounted)
    flows,              \* where each pending onSave call stands in ReviewLoader.handleSave
    upload,             \* where handleUploadSuccess stands
    calls               \* history: the requests sent to the backend, in order

vars == <<receipt, isFreshUpload, state, localItems, nextTempIdCounter, issued,
          storeName, receiptDate, saving, dateError, inflight,
          refetchDue, fetched, route, touched, lastOp, steps,
          routeId, loading, flows, upload, calls>>

\* the state of App and ReviewLoader around the page
appVars == <<routeId, loading, flows, upload, calls>>

-----------------------------------------------------------------------------
(* Bounds of the model *)

\* user actions (steps and save requests) explored in a run; it also bounds
\* the calls of nextTempId and the onSave promises pending at once
MaxSteps == 3

\* actions dispatched to the reducer in a run of ReducerSpec
MaxDispatch == 2

-----------------------------------------------------------------------------
(* Values *)

Null == <<>>
Some(v) == <<v>>
NullStr == "<null>"

\* a ?? b on nullable strings
CoalesceStr(a, b) == IF a = NullStr THEN b ELSE a

Range(s) == {s[i] : i \in 1..Len(s)}

EmptyMap == [k \in {} |-> 0]

\* { ...m, [k]: v }
MapPut(m, k, v) == [x \in (DOMAIN m) \cup {k} |-> IF x = k THEN v ELSE m[x]]

\* { ...it, ...patch }
Spread(it, patch) ==
    [f \in DOMAIN it |-> IF f \in DOMAIN patch THEN patch[f] ELSE it[f]]

\* items.map(it => it.id === itemId ? { ...it, ...patch } : it)
MapItems(items, itemId, patch) ==
    [i \in 1..Len(items) |->
        IF items[i].id = itemId THEN Spread(items[i], patch) ELSE items[i]]

\* variant: the id is recorded again each time
SetAddAgain(s, x) == Append(s, x)

\* new Set(s).add(x): a JavaScript Set keeps insertion order and no duplicates
SetAdd(s, x) == IF x \in Range(s) THEN s ELSE Append(s, x)

Categories == {"Snacks", "Other"}
Names      == {"Whole Milk", "Oat Milk"}
UnitPrices == {3981, 2495}
LocalPrices == {15}
ManualTotals == {9700, 8990}
StoreNames == {"", "Aldi"}
Dates      == {"", "2026-03-01"}

BaseItems ==
    << [id |-> 1, raw_name |-> "MILK", clean_name |-> "Milk",
        category |-> "Dairy & Eggs", category_source |-> "ai",
        price |-> 3990, quantity |-> 1, receipt_id |-> 100],
       [id |-> 2, raw_name |-> "EGGS", clean_name |-> "",
        category |-> "Dairy & Eggs", category_source |-> "learned",
        price |-> 2500, quantity |-> 2, receipt_id |-> 100] >>

ItemIds == {BaseItems[i].id : i \in 1..Len(BaseItems)}

\* (total, tax, total_verified, verification_message) of the baselines explored
MoneyProfiles ==
    { <<Some(9700), Some(700), TRUE,  "Total matches sum of items.">>,
      <<Some(9700), Some(700), FALSE, NullStr>>,
      <<Null,       Null,      FALSE, NullStr>>,
      <<Null,       Some(700), TRUE,  NullStr>> }

\* (store_name, receipt_date, status)
HeaderProfiles ==
    { <<NullStr,  NullStr,      "pending">>,
      <<"Costco", "2026-02-20", "pending">>,
      <<"Costco", "2026-02-20", "verified">> }

Receipts ==
    { [id |-> 100, store_name |-> h[1], receipt_date |-> h[2], status |-> h[3],
       total |-> m[1], tax |-> m[2], total_verified |-> m[3],
       verification_message |-> m[4], items |-> BaseItems] :
      h \in HeaderProfiles, m \in MoneyProfiles }

-----------------------------------------------------------------------------
(* CorrectionStore: reviewReducer.ts *)

EmptyTouched ==
    [category |-> EmptyMap, price |-> EmptyMap, name |-> EmptyMap, deleted |-> {}]

\* variant: the manual total starts empty
initialStateWithoutTotal(r) ==
    [items               |-> r.items,
     categoryCorrections |-> EmptyMap,
     priceCorrections    |-> EmptyMap,
     nameCorrections     |-> EmptyMap,
     deletedItemIds      |-> <<>>,
     manualTotal         |-> Null]

initialState(r) ==
    [items               |-> r.items,
     categoryCorrections |-> EmptyMap,
     priceCorrections    |-> EmptyMap,
     nameCorrections     |-> EmptyMap,
     deletedItemIds      |-> <<>>,
     manualTotal         |-> r.total]

\* variant: the correction of an item already corrected is dropped
SetCategoryCaseKeepFirst(s, a) ==
    [s EXCEPT !.categoryCorrections =
                  IF a.itemId \in DOMAIN @ THEN @ ELSE MapPut(@, a.itemId, a.category),
              !.items = MapItems(@, a.itemId,
                  [category |-> a.category, category_source |-> "manual"])]

\* variant: the category-source tag is left as it was
SetCategoryCaseKeepSource(s, a) ==
    [s EXCEPT !.categoryCorrections = MapPut(@, a.itemId, a.category),
              !.items = MapItems(@, a.itemId,
                  [category |-> a.category])]

SetCategoryCase(s, a) ==
    [s EXCEPT !.categoryCorrections = MapPut(@, a.itemId, a.category),
              !.items = MapItems(@, a.itemId,
                  [category |-> a.category, category_source |-> "manual"])]

\* variant: the first price correction of an item wins
SetPriceCaseKeepFirst(s, a) ==
    IF a.itemId \in DOMAIN s.priceCorrections THEN s
    ELSE [s EXCEPT !.priceCorrections = MapPut(@, a.itemId, a.unitPrice),
                   !.items = MapItems(@, a.itemId, [price |-> a.unitPrice])]

SetPriceCase(s, a) ==
    [s EXCEPT !.priceCorrections = MapPut(@, a.itemId, a.unitPrice),
              !.items = MapItems(@, a.itemId,
                  [price |-> a.unitPrice])]

\* variant: the raw name is overwritten too
SetNameCaseOverwritesRaw(s, a) ==
    [s EXCEPT !.nameCorrections = MapPut(@, a.itemId, a.name),
              !.items = MapItems(@, a.itemId,
                  [clean_name |-> a.name, raw_name |-> a.name])]

SetNameCase(s, a) ==
    [s EXCEPT !.nameCorrections = MapPut(@, a.itemId, a.name),
              !.items = MapItems(@, a.itemId,
                  [clean_name |-> a.name])]

\* variant: the corrections of the deleted item are dropped with it
DeleteItemCaseDropsCorrections(s, a) ==
    [s EXCEPT !.deletedItemIds = SetAdd(@, a.itemId),
              !.items = SelectSeq(@, LAMBDA it : it.id # a.itemId),
              !.categoryCorrections = [k \in (DOMAIN @) \ {a.itemId} |-> @[k]],
              !.priceCorrections = [k \in (DOMAIN @) \ {a.itemId} |-> @[k]],
              !.nameCorrections = [k \in (DOMAIN @) \ {a.itemId} |-> @[k]]]

\* variant: the item stays in the list
DeleteItemCaseKeepsItem(s, a) ==
    [s EXCEPT !.deletedItemIds = SetAdd(@, a.itemId)]

DeleteItemCase(s, a) ==
    [s EXCEPT !.deletedItemIds = SetAdd(@, a.itemId),
              !.items = SelectSeq(@, LAMBDA it : it.id # a.itemId)]

SetManualTotalCase(s, a) == [s EXCEPT !.manualTotal = a.total]

\* variant: the manual total entered before survives the reset
ResetCaseKeepManualTotal(s, a) ==
    [initialState(a.receipt) EXCEPT !.manualTotal = s.manualTotal]

ResetCase(s, a) == initialState(a.receipt)

\* variant: the default branch returns a cleared copy instead of the state
reviewReducerDefaultClears(s, a) ==
    CASE a.type = "SET_CATEGORY"     -> SetCategoryCase(s, a)
      [] a.type = "SET_PRICE"        -> SetPriceCase(s, a)
      [] a.type = "SET_NAME"         -> SetNameCase(s, a)
      [] a.type = "DELETE_ITEM"      -> DeleteItemCase(s, a)
      [] a.type = "SET_MANUAL_TOTAL" -> SetManualTotalCase(s, a)
      [] a.type = "RESET"            -> ResetCase(s, a)
      [] OTHER                       -> [s EXCEPT !.categoryCorrections = EmptyMap,
                                                  !.priceCorrections = EmptyMap,
                                                  !.nameCorrections = EmptyMap]

reviewReducer(s, a) ==
    CASE a.type = "SET_CATEGORY"     -> SetCategoryCase(s, a)
      [] a.type = "SET_PRICE"        -> SetPriceCase(s, a)
      [] a.type = "SET_NAME"         -> SetNameCase(s, a)
      [] a.type = "DELETE_ITEM"      -> DeleteItemCase(s, a)
      [] a.type = "SET_MANUAL_TOTAL" -> SetManualTotalCase(s, a)
      [] a.type = "RESET"            -> ResetCase(s, a)
      [] OTHER                       -> s

-----------------------------------------------------------------------------
(* DirtinessEvaluator: the exported isDirty of reviewReducer.ts *)

\* variant: added local items do not count for an unapproved receipt
isDirtyIgnoringLocalItems(s, loc, sName, rDate, r, isVerified) ==
    IF isVerified
    THEN \/ DOMAIN s.categoryCorrections # {}
         \/ sName # CoalesceStr(r.store_name, "")
         \/ rDate # CoalesceStr(r.receipt_date, "")
    ELSE \/ DOMAIN s.categoryCorrections # {}
         \/ DOMAIN s.priceCorrections # {}
         \/ DOMAIN s.nameCorrections # {}
         \/ Len(s.deletedItemIds) > 0
         \/ sName # CoalesceStr(r.store_name, "")
         \/ rDate # CoalesceStr(r.receipt_date, "")

\* variant: an approved receipt reacts to category corrections only
isDirtyApprovedCategoryOnly(s, loc, sName, rDate, r, isVerified) ==
    IF isVerified
    THEN DOMAIN s.categoryCorrections # {}
    ELSE \/ DOMAIN s.categoryCorrections # {}
         \/ DOMAIN s.priceCorrections # {}
         \/ DOMAIN s.nameCorrections # {}
         \/ Len(s.deletedItemIds) > 0
         \/ Len(loc) > 0
         \/ sName # CoalesceStr(r.store_name, "")
         \/ rDate # CoalesceStr(r.receipt_date, "")

\* variant: the headers are compared with the baseline fields as they are
isDirtyRawHeaders(s, loc, sName, rDate, r, isVerified) ==
    IF isVerified
    THEN \/ DOMAIN s.categoryCorrections # {}
         \/ sName # r.store_name
         \/ rDate # r.receipt_date
    ELSE \/ DOMAIN s.categoryCorrections # {}
         \/ DOMAIN s.priceCorrections # {}
         \/ DOMAIN s.nameCorrections # {}
         \/ Len(s.deletedItemIds) > 0
         \/ Len(loc) > 0
         \/ sName # r.store_name
         \/ rDate # r.receipt_date

isDirty(s, loc, sName, rDate, r, isVerified) ==
    IF isVerified
    THEN \/ DOMAIN s.categoryCorrections # {}
         \/ sName # CoalesceStr(r.store_name, "")
         \/ rDate # CoalesceStr(r.receipt_date, "")
    ELSE \/ DOMAIN s.categoryCorrections # {}
         \/ DOMAIN s.priceCorrections # {}
         \/ DOMAIN s.nameCorrections # {}
         \/ Len(s.deletedItemIds) > 0
         \/ Len(loc) > 0
         \/ sName # CoalesceStr(r.store_name, "")
         \/ rDate # CoalesceStr(r.receipt_date, "")

-----------------------------------------------------------------------------
(* The review page: derived values of ReviewReceipt.tsx *)

IsVerified(r) == r.status = "verified"

\* the page's own useMemo dirty flag
pageIsDirty(s, loc, sName, rDate, r) ==
    IF IsVerified(r)
    THEN DOMAIN s.categoryCorrections # {}
    ELSE \/ DOMAIN s.categoryCorrections # {}
         \/ DOMAIN s.priceCorrections # {}
         \/ DOMAIN s.nameCorrections # {}
         \/ Len(s.deletedItemIds) > 0
         \/ Len(loc) > 0
         \/ sName # CoalesceStr(r.store_name, "")
         \/ rDate # CoalesceStr(r.receipt_date, "")

Abs(x) == IF x < 0 THEN -x ELSE x

RECURSIVE ItemsSum(_)
ItemsSum(items) ==
    IF items = <<>> THEN 0
    ELSE Head(items).price * Head(items).quantity + ItemsSum(Tail(items))

RECURSIVE LocalSum(_)
LocalSum(loc) ==
    IF loc = <<>> THEN 0 ELSE Head(loc).price + LocalSum(Tail(loc))

subtotal(s, loc) == ItemsSum(s.items) + LocalSum(loc)

\* receipt.tax ?? 0
tax(r) == IF r.tax = Null THEN 0 ELSE r.tax[1]

\* variant: the manual override is not consulted
totalBaselineOnly(r, s) == r.total

\* state.manualTotal ?? receipt.total
total(r, s) == IF s.manualTotal # Null THEN s.manualTotal ELSE r.total

\* Math.abs(subtotal + tax - total) < 0.02
Tolerance == 20

\* variant: deletions do not leave the fast path
FastPathIgnoringDeletions(r, s, loc) ==
    /\ r.total_verified
    /\ DOMAIN s.priceCorrections = {}
    /\ Len(loc) = 0

FastPath(r, s, loc) ==
    /\ r.total_verified
    /\ DOMAIN s.priceCorrections = {}
    /\ Len(s.deletedItemIds) = 0
    /\ Len(loc) = 0

\* variant: the tolerance is inclusive
WithinToleranceInclusive(r, s, loc) ==
    /\ total(r, s) # Null
    /\ Abs(subtotal(s, loc) + tax(r) - total(r, s)[1]) <= Tolerance

WithinTolerance(r, s, loc) ==
    /\ total(r, s) # Null
    /\ Abs(subtotal(s, loc) + tax(r) - total(r, s)[1]) < Tolerance

\* the useMemo returning verifyStatus, verifyTitle and verifyDetail; the detail
\* strings are kept as their parts, amounts unformatted
verify(r, s, loc) ==
    IF FastPath(r, s, loc)
    THEN [verifyStatus |-> "balanced", verifyTitle |-> "Total Balanced",
          verifyDetail |->
              IF r.verification_message # NullStr
              THEN <<r.verification_message>>
              ELSE <<"Total: ", IF r.total = Null THEN 0 ELSE r.total[1]>>]
    ELSE IF WithinTolerance(r, s, loc)
    THEN [verifyStatus |-> "balanced", verifyTitle |-> "Total Balanced",
          verifyDetail |-> <<"Items ", subtotal(s, loc), " + tax ", tax(r),
                             " = ", total(r, s)[1]>>]
    ELSE IF total(r, s) # Null
    THEN [verifyStatus |-> "warn", verifyTitle |-> "Total Mismatch",
          verifyDetail |-> <<"Items ", subtotal(s, loc), " + tax ", tax(r),
                             " = ", subtotal(s, loc) + tax(r),
                             "  (receipt: ", total(r, s)[1], ")">>]
    ELSE [verifyStatus |-> "fail", verifyTitle |-> "Total Not Found",
          verifyDetail |->
              IF r.verification_message # NullStr
              THEN <<r.verification_message>>
              ELSE <<"Could not read receipt total.">>]

verifyStatus(r, s, loc) == verify(r, s, loc).verifyStatus

\* variant: the difference is taken the other way round
differenceReversed(r, s, loc) ==
    IF total(r, s) # Null
    THEN Some(subtotal(s, loc) + tax(r) - total(r, s)[1])
    ELSE Null

\* the difference prop of VerifyBar: total != null ? total - subtotal - tax : undefined
difference(r, s, loc) ==
    IF total(r, s) # Null
    THEN Some(total(r, s)[1] - subtotal(s, loc) - tax(r))
    ELSE Null

\* Math.round(diff * 100) / 100: to the nearest cent, halves towards +infinity
RoundToCent(d) == ((d + 5) \div 10) * 10

\* Math.abs(rounded) >= 0.01
MinAdjustment == 10

\* VerifyBar shows the Add button when Math.abs(difference) >= 0.02
OfferThreshold == 20

-----------------------------------------------------------------------------
(* SaveDiffBuilder: the body handleSave hands to onSave *)

\* Object.fromEntries(Object.entries(m).map(([k, v]) => [k, v])): the keys are
\* the decimal strings of the item ids, one per id
CopyEntries(m) == [k \in DOMAIN m |-> m[k]]

\* variant: the manual total is sent in every mode
ManualTotalFieldAnyMode(r, s) == s.manualTotal

ManualTotalField(r, s) == IF IsVerified(r) THEN Null ELSE s.manualTotal

\* x || null
OrNull(x) == IF x = "" THEN NullStr ELSE x

StripTempId(it) == [name |-> it.name, price |-> it.price, category |-> it.category]

NewItemsField(loc) == [i \in 1..Len(loc) |-> StripTempId(loc[i])]

\* variant: every body asks for approval
BuildBodyAlwaysApproves(r, s, loc, sName, rDate, approve) ==
    [corrections       |-> CopyEntries(s.categoryCorrections),
     price_corrections |-> CopyEntries(s.priceCorrections),
     name_corrections  |-> CopyEntries(s.nameCorrections),
     manual_total      |-> ManualTotalField(r, s),
     receipt_date      |-> OrNull(rDate),
     store_name        |-> OrNull(sName),
     new_items         |-> NewItemsField(loc),
     deleted_item_ids  |-> s.deletedItemIds,
     approve           |-> TRUE]

BuildBody(r, s, loc, sName, rDate, approve) ==
    [corrections       |-> CopyEntries(s.categoryCorrections),
     price_corrections |-> CopyEntries(s.priceCorrections),
     name_corrections  |-> CopyEntries(s.nameCorrections),
     manual_total      |-> ManualTotalField(r, s),
     receipt_date      |-> OrNull(rDate),
     store_name        |-> OrNull(sName),
     new_items         |-> NewItemsField(loc),
     deleted_item_ids  |-> s.deletedItemIds,
     approve           |-> approve]

-----------------------------------------------------------------------------
(* LocalItemAllocator: LineItemsTable.tsx *)

\* nextTempId() returns _nextTempId and then decrements it
NextTempIdValue(counter) == counter

\* variant: the counter is not moved after a call
NextTempIdAfterStuck(counter) == counter

NextTempIdAfter(counter) == counter - 1

-----------------------------------------------------------------------------
(* Initial state: the page mounted on a baseline receipt *)

Init ==
    /\ receipt \in Receipts
    /\ isFreshUpload = (receipt.receipt_date = NullStr)
    /\ state = initialState(receipt)
    /\ localItems = <<>>
    /\ nextTempIdCounter = -1
    /\ issued = <<>>
    /\ storeName = CoalesceStr(receipt.store_name, "")
    /\ receiptDate = CoalesceStr(receipt.receipt_date, "")
    /\ saving = FALSE
    /\ dateError = FALSE
    /\ inflight = <<>>
    /\ refetchDue = FALSE
    /\ fetched = IF isFreshUpload THEN Null ELSE Some(receipt)
    /\ route = "review"
    /\ touched = EmptyTouched
    /\ lastOp = <<"init">>
    /\ steps = 0
    /\ routeId = Some(receipt.id)
    /\ loading = FALSE
    /\ flows = <<>>
    /\ upload = [pc |-> "idle"]
    /\ calls = <<>>

Mounted == route = "review" /\ ~loading
CanAct == Mounted /\ steps < MaxSteps
Locked == IsVerified(receipt)

LiveIds == {state.items[i].id : i \in 1..Len(state.items)}
LiveItem(itemId) == CHOOSE it \in Range(state.items) : it.id = itemId

\* item.clean_name || item.raw_name
ShownName(it) == IF it.clean_name # "" THEN it.clean_name ELSE it.raw_name

pageUnchanged == UNCHANGED <<receipt, isFreshUpload, saving, dateError, inflight,
                             refetchDue, fetched, route, appVars>>

-----------------------------------------------------------------------------
(* Edit handlers of the page, each guarded as the table and the bars offer it *)

\* CategorySelect of an item row: disabled = locked && !allowCategoryEdit
handleCategoryChange(itemId, category) ==
    /\ CanAct
    /\ itemId \in LiveIds
    /\ ~(Locked /\ ~IsVerified(receipt))
    /\ state' = reviewReducer(state,
           [type |-> "SET_CATEGORY", itemId |-> itemId, category |-> category])
    /\ touched' = [touched EXCEPT !.category = MapPut(@, itemId, category)]
    /\ lastOp' = <<"SET_CATEGORY", itemId>>
    /\ steps' = steps + 1
    /\ UNCHANGED <<localItems, nextTempIdCounter, issued, storeName, receiptDate>>
    /\ pageUnchanged

\* variant: the price input stays editable on a verified receipt
handlePriceChangeUnlocked(itemId, unitPrice) ==
    /\ CanAct
    /\ itemId \in LiveIds
    /\ state' = reviewReducer(state,
           [type |-> "SET_PRICE", itemId |-> itemId, unitPrice |-> unitPrice])
    /\ touched' = [touched EXCEPT !.price = MapPut(@, itemId, unitPrice)]
    /\ lastOp' = <<"SET_PRICE", itemId>>
    /\ steps' = steps + 1
    /\ UNCHANGED <<localItems, nextTempIdCounter, issued, storeName, receiptDate>>
    /\ pageUnchanged

handlePriceChange(itemId, unitPrice) ==
    /\ CanAct
    /\ itemId \in LiveIds
    /\ ~Locked
    /\ state' = reviewReducer(state,
           [type |-> "SET_PRICE", itemId |-> itemId, unitPrice |-> unitPrice])
    /\ touched' = [touched EXCEPT !.price = MapPut(@, itemId, unitPrice)]
    /\ lastOp' = <<"SET_PRICE", itemId>>
    /\ steps' = steps + 1
    /\ UNCHANGED <<localItems, nextTempIdCounter, issued, storeName, receiptDate>>
    /\ pageUnchanged

\* the name input commits on blur when v && v !== (clean_name || raw_name)
handleNameChange(itemId, name) ==
    /\ CanAct
    /\ itemId \in LiveIds
    /\ ~Locked
    /\ name # ""
    /\ name # ShownName(LiveItem(itemId))
    /\ state' = reviewReducer(state,
           [type |-> "SET_NAME", itemId |-> itemId, name |-> name])
    /\ touched' = [touched EXCEPT !.name = MapPut(@, itemId, name)]
    /\ lastOp' = <<"SET_NAME", itemId>>
    /\ steps' = steps + 1
    /\ UNCHANGED <<localItems, nextTempIdCounter, issued, storeName, receiptDate>>
    /\ pageUnchanged

handleDeleteItem(itemId) ==
    /\ CanAct
    /\ itemId \in LiveIds
    /\ ~Locked
    /\ state' = reviewReducer(state, [type |-> "DELETE_ITEM", itemId |-> itemId])
    /\ touched' = [touched EXCEPT !.deleted = @ \cup {itemId}]
    /\ lastOp' = <<"DELETE_ITEM", itemId>>
    /\ steps' = steps + 1
    /\ UNCHANGED <<localItems, nextTempIdCounter, issued, storeName, receiptDate>>
    /\ pageUnchanged

\* setLocalItems(prev => [...prev, { _tempId: nextTempId(), ...item }])
AddLocal(loc, counter, item) ==
    Append(loc, [_tempId |-> NextTempIdValue(counter), name |-> item.name,
                 price |-> item.price, category |-> item.category])

\* commitAdd of the inline add row (shown when not locked)
handleAddItem(item) ==
    /\ CanAct
    /\ ~Locked
    /\ localItems' = AddLocal(localItems, nextTempIdCounter, item)
    /\ nextTempIdCounter' = NextTempIdAfter(nextTempIdCounter)
    /\ issued' = Append(issued, NextTempIdValue(nextTempIdCounter))
    /\ lastOp' = <<"ADD_ITEM">>
    /\ steps' = steps + 1
    /\ UNCHANGED <<state, storeName, receiptDate, touched>>
    /\ pageUnchanged

\* setLocalItems(prev => prev.map(it => it._tempId === tempId ? {...it, ...patch} : it))
PatchLocal(loc, tempId, field, value) ==
    [i \in 1..Len(loc) |->
        IF loc[i]._tempId = tempId
        THEN CASE field = "name"     -> [loc[i] EXCEPT !.name = value]
               [] field = "category" -> [loc[i] EXCEPT !.category = value]
               [] field = "price"    -> [loc[i] EXCEPT !.price = value]
        ELSE loc[i]]

handleLocalItemChange(tempId, field, value) ==
    /\ CanAct
    /\ tempId \in {localItems[i]._tempId : i \in 1..Len(localItems)}
    /\ localItems' = PatchLocal(localItems, tempId, field, value)
    /\ lastOp' = <<"PATCH_LOCAL", tempId>>
    /\ steps' = steps + 1
    /\ UNCHANGED <<state, nextTempIdCounter, issued, storeName, receiptDate, touched>>
    /\ pageUnchanged

handleDeleteLocal(tempId) ==
    /\ CanAct
    /\ tempId \in {localItems[i]._tempId : i \in 1..Len(localItems)}
    /\ localItems' = SelectSeq(localItems, LAMBDA it : it._tempId # tempId)
    /\ lastOp' = <<"DELETE_LOCAL", tempId>>
    /\ steps' = steps + 1
    /\ UNCHANGED <<state, nextTempIdCounter, issued, storeName, receiptDate, touched>>
    /\ pageUnchanged

\* variant: the difference is cut to whole cents instead of rounded
AdjustmentPriceTruncated(diff) == (diff \div 10) * 10

\* the price of the Adjustment item onAddDifference(diff) inserts
AdjustmentPrice(diff) == RoundToCent(diff)

\* VerifyBar's Add button: shown in warn state when onAddDifference is given
\* (not verified, verifyStatus warn) and |difference| >= 0.02
AddDifferenceOffered ==
    /\ ~IsVerified(receipt)
    /\ verifyStatus(receipt, state, localItems) = "warn"
    /\ difference(receipt, state, localItems) # Null
    /\ Abs(difference(receipt, state, localItems)[1]) >= OfferThreshold

onAddDifference ==
    /\ CanAct
    /\ AddDifferenceOffered
    /\ LET rounded == AdjustmentPrice(difference(receipt, state, localItems)[1])
       IN  IF Abs(rounded) >= MinAdjustment
           THEN /\ localItems' = AddLocal(localItems, nextTempIdCounter,
                        [name |-> "Adjustment", price |-> rounded, category |-> "Other"])
                /\ nextTempIdCounter' = NextTempIdAfter(nextTempIdCounter)
                /\ issued' = Append(issued, NextTempIdValue(nextTempIdCounter))
           ELSE UNCHANGED <<localItems, nextTempIdCounter, issued>>
    /\ lastOp' = <<"ADD_DIFFERENCE">>
    /\ steps' = steps + 1
    /\ UNCHANGED <<state, storeName, receiptDate, touched>>
    /\ pageUnchanged

\* VerifyBar's manual total input: shown in fail state, dispatches when v > 0
onManualTotal(t) ==
    /\ CanAct
    /\ verifyStatus(receipt, state, localItems) = "fail"
    /\ t > 0
    /\ state' = reviewReducer(state, [type |-> "SET_MANUAL_TOTAL", total |-> Some(t)])
    /\ lastOp' = <<"SET_MANUAL_TOTAL">>
    /\ steps' = steps + 1
    /\ UNCHANGED <<localItems, nextTempIdCounter, issued, storeName, receiptDate, touched>>
    /\ pageUnchanged

\* variant: the store-name input is rendered for a verified receipt too
setStoreNameUnlocked(v) ==
    /\ CanAct
    /\ v # storeName
    /\ storeName' = v
    /\ lastOp' = <<"SET_STORE_NAME">>
    /\ steps' = steps + 1
    /\ UNCHANGED <<state, localItems, nextTempIdCounter, issued, receiptDate, touched>>
    /\ pageUnchanged

\* the store-name input is rendered only when not verified
setStoreName(v) ==
    /\ CanAct
    /\ ~IsVerified(receipt)
    /\ v # storeName
    /\ storeName' = v
    /\ lastOp' = <<"SET_STORE_NAME">>
    /\ steps' = steps + 1
    /\ UNCHANGED <<state, localItems, nextTempIdCounter, issued, receiptDate, touched>>
    /\ pageUnchanged

\* the date input is disabled when verified; a non-empty value clears dateError
setReceiptDate(v) ==
    /\ CanAct
    /\ ~IsVerified(receipt)
    /\ v # receiptDate
    /\ receiptDate' = v
    /\ dateError' = IF v # "" THEN FALSE ELSE dateError
    /\ lastOp' = <<"SET_RECEIPT_DATE">>
    /\ steps' = steps + 1
    /\ UNCHANGED <<state, localItems, nextTempIdCounter, issued, storeName, touched>>
    /\ UNCHANGED <<receipt, isFreshUpload, saving, inflight, refetchDue, fetched, route,
                   appVars>>

-----------------------------------------------------------------------------
(* Saving *)

\* the buttons and events that call handleSave(approve)
SaveOffered(via, approve) ==
    LET dirty == pageIsDirty(state, localItems, storeName, receiptDate, receipt)
    IN  CASE via = "footer" ->
               IF ~IsVerified(receipt)
               THEN IF approve THEN ~saving ELSE dirty /\ ~saving
               ELSE ~approve /\ dirty /\ ~saving
          [] via = "topbar" ->
               /\ (~IsVerified(receipt) \/ dirty)
               /\ IF approve THEN ~IsVerified(receipt) ELSE dirty

\* variant: the request goes out without looking at the date
handleSaveWithoutDateCheck(via, approve) ==
    /\ CanAct
    /\ SaveOffered(via, approve)
    /\ saving' = TRUE
    /\ inflight' = Append(inflight,
           BuildBody(receipt, state, localItems, storeName, receiptDate, approve))
    /\ lastOp' = <<"SAVE">>
    /\ steps' = steps + 1
    /\ UNCHANGED <<receipt, isFreshUpload, state, localItems, nextTempIdCounter, issued,
                   storeName, receiptDate, dateError, refetchDue, fetched, route, touched,
                   appVars>>

\* variant: the local items are dropped once the body is built
handleSaveConsumesLocalItems(via, approve) ==
    /\ CanAct
    /\ SaveOffered(via, approve)
    /\ IF receiptDate = ""
       THEN /\ dateError' = TRUE
            /\ lastOp' = <<"SAVE_REJECTED">>
            /\ UNCHANGED <<saving, inflight, localItems>>
       ELSE /\ saving' = TRUE
            /\ inflight' = Append(inflight,
                   BuildBody(receipt, state, localItems, storeName, receiptDate, approve))
            /\ localItems' = <<>>
            /\ lastOp' = <<"SAVE">>
            /\ UNCHANGED dateError
    /\ steps' = steps + 1
    /\ UNCHANGED <<receipt, isFreshUpload, state, nextTempIdCounter, issued,
                   storeName, receiptDate, refetchDue, fetched, route, touched, appVars>>

handleSave(via, approve) ==
    /\ CanAct
    /\ SaveOffered(via, approve)
    /\ IF receiptDate = ""
       THEN /\ dateError' = TRUE
            /\ lastOp' = <<"SAVE_REJECTED">>
            /\ UNCHANGED <<saving, inflight>>
       ELSE /\ saving' = TRUE
            /\ inflight' = Append(inflight,
                   BuildBody(receipt, state, localItems, storeName, receiptDate, approve))
            /\ lastOp' = <<"SAVE">>
            /\ UNCHANGED dateError
    /\ steps' = steps + 1
    /\ UNCHANGED <<receipt, isFreshUpload, state, localItems, nextTempIdCounter, issued,
                   storeName, receiptDate, refetchDue, fetched, route, touched, appVars>>

\* variant: a failed save drops the local items
saveSettlesFailureDropsLocalItems(i, outcome) ==
    /\ Mounted
    /\ i \in 1..Len(inflight)
    /\ saving' = FALSE
    /\ inflight' = [j \in 1..(Len(inflight) - 1) |->
                        IF j < i THEN inflight[j] ELSE inflight[j + 1]]
    /\ refetchDue' = (refetchDue \/ outcome = "saved")
    /\ route' = IF outcome = "saved" /\ inflight[i].approve THEN "receipts" ELSE route
    /\ lastOp' = <<"SETTLED", outcome>>
    /\ localItems' = IF outcome = "failed" THEN <<>> ELSE localItems
    /\ UNCHANGED <<receipt, isFreshUpload, state, nextTempIdCounter, issued,
                   storeName, receiptDate, dateError, fetched, touched, steps, appVars>>

\* the onSave promise of the i-th pending call settles; finally setSaving(false).
\* saved: the mutation succeeded (its onSuccess invalidates the receipt query,
\* and an approving save navigates to the list); cancelled: onSave returned
\* without saving; failed: it rejected.
saveSettles(i, outcome) ==
    /\ Mounted
    /\ i \in 1..Len(inflight)
    /\ saving' = FALSE
    /\ inflight' = [j \in 1..(Len(inflight) - 1) |->
                        IF j < i THEN inflight[j] ELSE inflight[j + 1]]
    /\ refetchDue' = (refetchDue \/ outcome = "saved")
    /\ route' = IF outcome = "saved" /\ inflight[i].approve THEN "receipts" ELSE route
    /\ lastOp' = <<"SETTLED", outcome>>
    /\ UNCHANGED <<receipt, isFreshUpload, state, localItems, nextTempIdCounter, issued,
                   storeName, receiptDate, dateError, fetched, touched, steps, appVars>>

\* the effect on [receipt]: a refetched receipt that differs from the current
\* prop resets the session (a fresh upload's receipt prop is memoized on
\* freshResult and never changes).  The page is still mounted only after a
\* save that did not approve, which leaves the status as it was.
receiptChanged(r) ==
    /\ Mounted
    /\ refetchDue
    /\ ~isFreshUpload
    /\ r.status = receipt.status
    /\ r.store_name = receipt.store_name
    /\ refetchDue' = FALSE
    /\ fetched' = Some(r)
    /\ IF r # receipt
       THEN /\ receipt' = r
            /\ state' = reviewReducer(state, [type |-> "RESET", receipt |-> r])
            /\ localItems' = <<>>
            /\ storeName' = CoalesceStr(r.store_name, "")
            /\ receiptDate' = CoalesceStr(r.receipt_date, "")
            /\ touched' = EmptyTouched
            /\ lastOp' = <<"RESET">>
       ELSE /\ UNCHANGED <<receipt, state, localItems, storeName, receiptDate,
                           touched>>
            /\ lastOp' = <<"REFETCH_SAME">>
    /\ UNCHANGED <<isFreshUpload, nextTempIdCounter, issued, saving, dateError, inflight,
                   route, steps, appVars>>

-----------------------------------------------------------------------------

NewItems ==
    {[name |-> "Bag", price |-> p, category |-> "Other"] : p \in LocalPrices}

LocalPatches == {<<"name", "Bag fee">>, <<"price", 25>>}

Next ==
    \/ \E i \in ItemIds, c \in Categories : handleCategoryChange(i, c)
    \/ \E i \in ItemIds, p \in UnitPrices : handlePriceChange(i, p)
    \/ \E i \in ItemIds, n \in Names : handleNameChange(i, n)
    \/ \E i \in ItemIds : handleDeleteItem(i)
    \/ \E it \in NewItems : handleAddItem(it)
    \/ \E t \in (-MaxSteps)..(-1), pt \in LocalPatches :
           handleLocalItemChange(t, pt[1], pt[2])
    \/ \E t \in (-MaxSteps)..(-1) : handleDeleteLocal(t)
    \/ onAddDifference
    \/ \E t \in ManualTotals : onManualTotal(t)
    \/ \E v \in StoreNames : setStoreName(v)
    \/ \E v \in Dates : setReceiptDate(v)
    \/ \E via \in {"footer", "topbar"}, approve \in BOOLEAN : handleSave(via, approve)
    \/ \E i \in 1..MaxSteps, o \in {"saved", "cancelled", "failed"} : saveSettles(i, o)
    \/ \E r \in Receipts : receiptChanged(r)

Spec == Init /\ [][Next]_vars

-----------------------------------------------------------------------------
(* The reducer on its own: any ReviewAction, and an action of a type the    *)
(* union does not have, dispatched to any state the reducer produced.       *)

\* an id no baseline item has
AbsentIds == {3}

UnknownTypes == {"UNKNOWN"}

ReviewActions ==
         {[type |-> "SET_CATEGORY", itemId |-> i, category |-> c] :
              i \in ItemIds \cup AbsentIds, c \in Categories}
    \cup {[type |-> "SET_PRICE", itemId |-> i, unitPrice |-> p] :
              i \in ItemIds \cup AbsentIds, p \in UnitPrices}
    \cup {[type |-> "SET_NAME", itemId |-> i, name |-> n] :
              i \in ItemIds \cup AbsentIds, n \in Names}
    \cup {[type |-> "DELETE_ITEM", itemId |-> i] : i \in ItemIds \cup AbsentIds}
    \cup {[type |-> "SET_MANUAL_TOTAL", total |-> t] :
              t \in {Null} \cup {Some(m) : m \in ManualTotals}}
    \cup {[type |-> "RESET", receipt |-> r] : r \in Receipts}
    \cup {[type |-> t] : t \in UnknownTypes}

\* dispatch(action) of useReducer: state becomes reviewReducer(state, action)
dispatch(a) ==
    /\ steps < MaxDispatch
    /\ state' = reviewReducer(state, a)
    /\ lastOp' = <<"DISPATCH", a>>
    /\ steps' = steps + 1
    /\ UNCHANGED <<receipt, isFreshUpload, localItems, nextTempIdCounter, issued,
                   storeName, receiptDate, saving, dateError, inflight,
                   refetchDue, fetched, route, touched, appVars>>

ReducerNext == \E a \in ReviewActions : dispatch(a)

ReducerSpec == Init /\ [][ReducerNext]_vars

-----------------------------------------------------------------------------
(* Duplicate lookup: checkDuplicates of api/receipts.ts *)

\* variant: only the total is looked at before the request is sent
CheckDuplicatesRequestTotalOnly(tot, rDate, excludeId) ==
    IF tot = Null THEN <<>>
    ELSE << [op |-> "check-duplicates", total |-> tot[1],
             receipt_date |-> rDate, exclude_id |-> excludeId] >>

\* the request checkDuplicates sends to the backend: none when total is null
\* or the date is null or empty (it then returns [] at once)
CheckDuplicatesRequest(tot, rDate, excludeId) ==
    IF tot = Null \/ rDate = NullStr \/ rDate = "" THEN <<>>
    ELSE << [op |-> "check-duplicates", total |-> tot[1],
             receipt_date |-> rDate, exclude_id |-> excludeId] >>

LookupTotals == {Null} \cup {Some(t) : t \in ManualTotals}
LookupDates == {NullStr, "", "2026-02-20", "2026-03-01"}
LookupIds == {Null, Some(100)}

\* a call of checkDuplicates on its own
callCheckDuplicates(tot, rDate, excludeId) ==
    /\ steps < MaxDispatch
    /\ LET request == CheckDuplicatesRequest(tot, rDate, excludeId)
       IN  /\ calls' = calls \o request
           /\ lastOp' = <<"CHECK_DUPLICATES",
                          [total |-> tot, receiptDate |-> rDate,
                           excludeId |-> excludeId],
                          IF request = <<>> THEN "empty" ELSE "pending">>
    /\ steps' = steps + 1
    /\ UNCHANGED <<receipt, isFreshUpload, state, localItems, nextTempIdCounter, issued,
                   storeName, receiptDate, saving, dateError, inflight,
                   refetchDue, fetched, route, touched, routeId, loading, flows, upload>>

LookupNext ==
    \E t \in LookupTotals, d \in LookupDates, x \in LookupIds :
        callCheckDuplicates(t, d, x)

LookupSpec == Init /\ [][LookupNext]_vars

-----------------------------------------------------------------------------
(* App and ReviewLoader: the duplicate guard around a save, navigation with *)
(* the unsaved-changes prompt, and the opening of a fresh upload            *)

\* ProcessingResult values an upload returns (receipt_id 101 is the new receipt)
UploadResults ==
    { [receipt_id |-> 101, store_name |-> "Costco", receipt_date |-> d,
       total |-> Some(9700), tax |-> Some(700), total_verified |-> TRUE,
       verification_message |-> "Total matches sum of items.", items |-> BaseItems] :
      d \in {NullStr, "2026-02-20"} }

\* the Receipt that ReviewLoader builds from freshResult
FreshReceipt(result) ==
    [id |-> result.receipt_id, store_name |-> result.store_name,
     receipt_date |-> result.receipt_date, status |-> "pending",
     total |-> result.total, tax |-> result.tax,
     total_verified |-> result.total_verified,
     verification_message |-> result.verification_message, items |-> result.items]

\* window.__tabulate_isDirty: the mounted page writes isDirty into it, and its
\* cleanup sets it to false
DirtyFlag == Mounted /\ pageIsDirty(state, localItems, storeName, receiptDate, receipt)

\* confirmIfDirty inside navigate: is the prompt raised, and does the route change
Navigate(skipGuard, answer) ==
    [prompted |-> ~skipGuard /\ DirtyFlag,
     goes     |-> skipGuard \/ ~DirtyFlag \/ answer]

\* variant: onSaved goes through the guard
OnSavedOptionsGuarded == [skipGuard |-> FALSE]

\* onSaved={() => navigate('receipts', null, { skipGuard: true })}
OnSavedOptions == [skipGuard |-> TRUE]

\* the calls of an unmounted ReviewReceipt go on, but its setters do nothing
UnLive(fs) == [i \in 1..Len(fs) |-> [fs[i] EXCEPT !.live = FALSE]]

RemoveAt(q, i) == [j \in 1..(Len(q) - 1) |-> IF j < i THEN q[j] ELSE q[j + 1]]

SaveCall(id, body) == [op |-> "save", id |-> id, body |-> body]
DeleteCall(id) == [op |-> "delete", id |-> id]

\* a new ReviewReceipt mounts on r
MountSession(r) ==
    /\ receipt' = r
    /\ state' = initialState(r)
    /\ localItems' = <<>>
    /\ storeName' = CoalesceStr(r.store_name, "")
    /\ receiptDate' = CoalesceStr(r.receipt_date, "")
    /\ saving' = FALSE
    /\ dateError' = FALSE
    /\ touched' = EmptyTouched

\* the mounted ReviewReceipt gets another receipt prop: the effect on [receipt]
ResetSession(r) ==
    /\ receipt' = r
    /\ state' = reviewReducer(state, [type |-> "RESET", receipt |-> r])
    /\ localItems' = <<>>
    /\ storeName' = CoalesceStr(r.store_name, "")
    /\ receiptDate' = CoalesceStr(r.receipt_date, "")
    /\ touched' = EmptyTouched
    /\ UNCHANGED <<saving, dateError>>

sessionUnchanged == UNCHANGED <<receipt, state, localItems, storeName, receiptDate,
                                saving, dateError, touched>>

\* total and date that ReviewLoader.handleSave looks up
LookupTotal(body, r) == IF body.manual_total # Null THEN body.manual_total ELSE r.total
LookupDate(body, r) == CoalesceStr(body.receipt_date, r.receipt_date)

\* uploadHadBoth: the check at upload already ran with both values
UploadHadBoth(fresh, r) == fresh /\ r.total # Null /\ r.receipt_date # NullStr

\* ReviewReceipt.handleSave followed by ReviewLoader.handleSave up to its first
\* await: either checkDuplicates or save.mutateAsync has been called
requestSave(via, approve) ==
    /\ CanAct
    /\ SaveOffered(via, approve)
    /\ IF receiptDate = ""
       THEN /\ dateError' = TRUE
            /\ lastOp' = <<"SAVE_REJECTED">>
            /\ UNCHANGED <<saving, inflight, flows, calls>>
       ELSE LET body == BuildBody(receipt, state, localItems, storeName, receiptDate,
                                  approve)
                tot == LookupTotal(body, receipt)
                date == LookupDate(body, receipt)
                looks == /\ ~UploadHadBoth(isFreshUpload, receipt)
                         /\ tot # Null
                         /\ date # NullStr /\ date # ""
                args == [total |-> tot, receiptDate |-> date, excludeId |-> routeId]
            IN  /\ saving' = TRUE
                /\ inflight' = Append(inflight, body)
                /\ flows' = Append(flows,
                       [pc |-> IF looks THEN "lookup" ELSE "mutate", live |-> TRUE,
                        id |-> routeId[1], body |-> body,
                        looked |-> IF looks THEN Some(args) ELSE Null])
                /\ calls' = IF looks
                            THEN calls \o CheckDuplicatesRequest(tot, date, routeId)
                            ELSE Append(calls, SaveCall(routeId[1], body))
                /\ lastOp' = <<"SAVE">>
                /\ UNCHANGED dateError
    /\ steps' = steps + 1
    /\ UNCHANGED <<receipt, isFreshUpload, state, localItems, nextTempIdCounter, issued,
                   storeName, receiptDate, refetchDue, fetched, route, touched,
                   routeId, loading, upload>>

\* variant: a cancelled confirm saves all the same
lookupSettlesSavesOnCancel(i, res, ok) ==
    /\ i \in 1..Len(flows)
    /\ flows[i].pc = "lookup"
    /\ flows' = [flows EXCEPT ![i].pc = "mutate"]
    /\ calls' = Append(calls, SaveCall(flows[i].id, flows[i].body))
    /\ lastOp' = <<"LOOKUP_DONE", res, i, res = "matches" /\ ok>>
    /\ UNCHANGED <<saving, inflight>>
    /\ UNCHANGED <<receipt, isFreshUpload, state, localItems, nextTempIdCounter, issued,
                   storeName, receiptDate, dateError, refetchDue, fetched, route,
                   touched, steps, routeId, loading, upload>>

\* variant: a failed lookup gives the save up
lookupSettlesFailureBlocks(i, res, ok) ==
    /\ i \in 1..Len(flows)
    /\ flows[i].pc = "lookup"
    /\ IF res = "failed" \/ (res = "matches" /\ ~ok)
       THEN /\ flows' = RemoveAt(flows, i)
            /\ inflight' = RemoveAt(inflight, i)
            /\ saving' = IF flows[i].live THEN FALSE ELSE saving
            /\ lastOp' = <<"SAVE_CANCELLED", i>>
            /\ UNCHANGED calls
       ELSE /\ flows' = [flows EXCEPT ![i].pc = "mutate"]
            /\ calls' = Append(calls, SaveCall(flows[i].id, flows[i].body))
            /\ lastOp' = <<"LOOKUP_DONE", res, i, res = "matches" /\ ok>>
            /\ UNCHANGED <<saving, inflight>>
    /\ UNCHANGED <<receipt, isFreshUpload, state, localItems, nextTempIdCounter, issued,
                   storeName, receiptDate, dateError, refetchDue, fetched, route,
                   touched, steps, routeId, loading, upload>>

\* checkDuplicates of the i-th pending save settles (res: none, matches or
\* failed) and, on matches, window.confirm returns ok.  Cancel returns from
\* handleSave, so the page's finally runs; anything else calls save.mutateAsync.
lookupSettles(i, res, ok) ==
    /\ i \in 1..Len(flows)
    /\ flows[i].pc = "lookup"
    /\ IF res = "matches" /\ ~ok
       THEN /\ flows' = RemoveAt(flows, i)
            /\ inflight' = RemoveAt(inflight, i)
            /\ saving' = IF flows[i].live THEN FALSE ELSE saving
            /\ lastOp' = <<"SAVE_CANCELLED", i>>
            /\ UNCHANGED calls
       ELSE /\ flows' = [flows EXCEPT ![i].pc = "mutate"]
            /\ calls' = Append(calls, SaveCall(flows[i].id, flows[i].body))
            /\ lastOp' = <<"LOOKUP_DONE", res, i, res = "matches" /\ ok>>
            /\ UNCHANGED <<saving, inflight>>
    /\ UNCHANGED <<receipt, isFreshUpload, state, localItems, nextTempIdCounter, issued,
                   storeName, receiptDate, dateError, refetchDue, fetched, route,
                   touched, steps, routeId, loading, upload>>

\* save.mutateAsync of the i-th pending save settles.  saved: onSuccess
\* invalidates the detail query of the saved id, and an approving save calls
\* onSaved; failed: the rejection goes up to the page.  Either way the page's
\* finally runs.
mutateSettles(i, outcome, answer) ==
    /\ i \in 1..Len(flows)
    /\ flows[i].pc = "mutate"
    /\ inflight' = RemoveAt(inflight, i)
    /\ saving' = IF flows[i].live THEN FALSE ELSE saving
    /\ IF outcome = "saved" /\ flows[i].body.approve
       THEN LET nav == Navigate(OnSavedOptions.skipGuard, answer)
            IN  /\ lastOp' = <<"SAVE_DONE", outcome, TRUE, nav.prompted, nav.goes>>
                /\ IF nav.goes
                   THEN /\ route' = "receipts"
                        /\ routeId' = Null
                        /\ loading' = FALSE
                        /\ flows' = UnLive(RemoveAt(flows, i))
                        /\ UNCHANGED refetchDue
                   ELSE /\ flows' = RemoveAt(flows, i)
                        /\ refetchDue' = (refetchDue \/ routeId = Some(flows[i].id))
                        /\ UNCHANGED <<route, routeId, loading>>
       ELSE /\ lastOp' = <<"SAVE_DONE", outcome, flows[i].body.approve, FALSE, FALSE>>
            /\ flows' = RemoveAt(flows, i)
            /\ refetchDue' = (refetchDue \/
                                (outcome = "saved" /\ route = "review"
                                    /\ routeId = Some(flows[i].id)))
            /\ UNCHANGED <<route, routeId, loading>>
    /\ UNCHANGED <<receipt, isFreshUpload, state, localItems, nextTempIdCounter, issued,
                   storeName, receiptDate, dateError, fetched, touched, steps,
                   upload, calls>>

\* places the user can leave the review page through: the topbar back button
\* and onClose (navigate('receipts')), the sidebar (setFreshResult(null), then
\* navigate(p)) and Scan Again (setFreshResult(null), then navigate('receipts'))
NavigationKinds == {"back", "sidebar", "rescan"}

NavigationTarget(kind) == IF kind = "sidebar" THEN "dashboard" ELSE "receipts"

ClearsFreshResult(kind) == kind \in {"sidebar", "rescan"}

\* after setFreshResult(null) on a route that stays: ReviewLoader turns to the
\* query of the route's id, which is loading when it holds no data
FallBackToQuery ==
    /\ isFreshUpload' = FALSE
    /\ IF fetched = Null
       THEN /\ loading' = TRUE
            /\ flows' = UnLive(flows)
            /\ sessionUnchanged
       ELSE /\ ResetSession(fetched[1])
            /\ UNCHANGED <<loading, flows>>

\* an in-app navigation away from the review route; answer is what the user
\* replies if the prompt is raised.  The sidebar and Scan Again handlers call
\* setFreshResult(null) before navigate, so freshResult is cleared whether or
\* not the guard lets the navigation through.
navigate(kind, answer) ==
    /\ route = "review"
    /\ steps < MaxSteps
    /\ kind = "rescan" => (Mounted /\ isFreshUpload)
    /\ LET nav == Navigate(FALSE, answer)
       IN  /\ lastOp' = <<"NAVIGATE", kind, nav.prompted, nav.goes>>
           /\ IF nav.goes
              THEN /\ route' = NavigationTarget(kind)
                   /\ routeId' = Null
                   /\ loading' = FALSE
                   /\ isFreshUpload' = (isFreshUpload /\ ~ClearsFreshResult(kind))
                   /\ flows' = UnLive(flows)
                   /\ sessionUnchanged
              ELSE /\ UNCHANGED <<route, routeId>>
                   /\ IF isFreshUpload /\ ClearsFreshResult(kind)
                      THEN FallBackToQuery
                      ELSE /\ UNCHANGED <<isFreshUpload, loading, flows>>
                           /\ sessionUnchanged
    /\ steps' = steps + 1
    /\ UNCHANGED <<nextTempIdCounter, issued, inflight, refetchDue, fetched, upload,
                   calls>>

\* browser back or forward from the review route: a declined prompt pushes the
\* route back; otherwise the route of the history entry is set and freshResult
\* is cleared
onPopState(answer) ==
    /\ route = "review"
    /\ steps < MaxSteps
    /\ LET prompted == DirtyFlag
           goes == ~prompted \/ answer
       IN  /\ lastOp' = <<"POPSTATE", prompted, goes>>
           /\ IF goes
              THEN /\ route' = "receipts"
                   /\ routeId' = Null
                   /\ loading' = FALSE
                   /\ isFreshUpload' = FALSE
                   /\ flows' = UnLive(flows)
              ELSE UNCHANGED <<route, routeId, loading, isFreshUpload, flows>>
    /\ steps' = steps + 1
    /\ sessionUnchanged
    /\ UNCHANGED <<nextTempIdCounter, issued, inflight, refetchDue, fetched, upload,
                   calls>>

\* the receipts the query of the route's id can return for the session at hand
LoadableReceipts ==
    { [r EXCEPT !.id = receipt.id] : r \in {x \in Receipts :
          /\ x.status = receipt.status
          /\ x.store_name = receipt.store_name} }

\* useReceipt finishes loading: ReviewReceipt mounts on the fetched receipt
receiptLoaded(r) ==
    /\ route = "review"
    /\ loading
    /\ loading' = FALSE
    /\ fetched' = Some(r)
    /\ MountSession(r)
    /\ lastOp' = <<"LOADED">>
    /\ UNCHANGED <<isFreshUpload, nextTempIdCounter, issued, inflight, refetchDue, route,
                   steps, routeId, flows, upload, calls>>

\* setFreshResult(result); navigate('review', result.receipt_id)
OpenFresh(result, answer) ==
    LET nav == Navigate(FALSE, answer)
    IN  /\ lastOp' = <<"UPLOAD_OPENED", nav.prompted, nav.goes>>
        /\ isFreshUpload' = TRUE
        /\ IF nav.goes
           THEN /\ route' = "review"
                /\ routeId' = Some(result.receipt_id)
                /\ loading' = FALSE
                /\ fetched' = Null
                /\ refetchDue' = FALSE
                /\ flows' = UnLive(flows)
                /\ MountSession(FreshReceipt(result))
           ELSE /\ ResetSession(FreshReceipt(result))
                /\ UNCHANGED <<route, routeId, loading, fetched, refetchDue, flows>>

\* an upload succeeded: with a total and a date the duplicate lookup is called
\* first, otherwise the review session is opened at once
handleUploadSuccess(result, answer) ==
    /\ steps < MaxSteps
    /\ upload.pc = "idle"
    /\ steps' = steps + 1
    /\ IF result.total # Null /\ result.receipt_date # NullStr
                              /\ result.receipt_date # ""
       THEN /\ calls' = calls \o CheckDuplicatesRequest(result.total,
                                     result.receipt_date, Some(result.receipt_id))
            /\ upload' = [pc |-> "lookup", result |-> result]
            /\ lastOp' = <<"UPLOADED">>
            /\ sessionUnchanged
            /\ UNCHANGED <<isFreshUpload, refetchDue, fetched, route, routeId, loading,
                           flows>>
       ELSE /\ OpenFresh(result, answer)
            /\ upload' = [pc |-> "done", result |-> result]
            /\ UNCHANGED calls
    /\ UNCHANGED <<nextTempIdCounter, issued, inflight>>

\* the upload-time lookup settles and, on matches, window.confirm returns ok.
\* Cancel calls deleteReceipt for the new receipt; anything else opens it.
uploadLookupSettles(res, ok, answer) ==
    /\ upload.pc = "lookup"
    /\ IF res = "matches" /\ ~ok
       THEN /\ calls' = Append(calls, DeleteCall(upload.result.receipt_id))
            /\ upload' = [upload EXCEPT !.pc = "delete"]
            /\ lastOp' = <<"UPLOAD_REFUSED">>
            /\ sessionUnchanged
            /\ UNCHANGED <<isFreshUpload, refetchDue, fetched, route, routeId, loading,
                           flows>>
       ELSE /\ OpenFresh(upload.result, answer)
            /\ upload' = [upload EXCEPT !.pc = "done"]
            /\ UNCHANGED calls
    /\ UNCHANGED <<nextTempIdCounter, issued, inflight, steps>>

\* variant: the session is opened when the delete fails
uploadDeleteSettlesOpensOnFailure(outcome, answer) ==
    /\ upload.pc = "delete"
    /\ upload' = [upload EXCEPT !.pc = "done"]
    /\ IF outcome = "failed"
       THEN OpenFresh(upload.result, answer)
       ELSE /\ lastOp' = <<"UPLOAD_DISCARDED", outcome>>
            /\ sessionUnchanged
            /\ UNCHANGED <<isFreshUpload, refetchDue, fetched, route, routeId, loading,
                           flows>>
    /\ UNCHANGED <<nextTempIdCounter, issued, inflight, steps, calls>>

\* deleteReceipt settles; a failure is swallowed, and handleUploadSuccess returns
uploadDeleteSettles(outcome, answer) ==
    /\ upload.pc = "delete"
    /\ upload' = [upload EXCEPT !.pc = "done"]
    /\ lastOp' = <<"UPLOAD_DISCARDED", outcome>>
    /\ sessionUnchanged
    /\ UNCHANGED <<isFreshUpload, refetchDue, fetched, route, routeId, loading, flows>>
    /\ UNCHANGED <<nextTempIdCounter, issued, inflight, steps, calls>>

LookupOutcomes == {"none", "matches", "failed"}

AppNext ==
    \/ \E i \in {1}, c \in {"Snacks"} : handleCategoryChange(i, c)
    \/ \E it \in NewItems : handleAddItem(it)
    \/ \E v \in Dates : setReceiptDate(v)
    \/ \E via \in {"footer", "topbar"}, approve \in BOOLEAN : requestSave(via, approve)
    \/ \E i \in 1..MaxSteps, res \in LookupOutcomes, ok \in BOOLEAN :
           lookupSettles(i, res, ok)
    \/ \E i \in 1..MaxSteps, o \in {"saved", "failed"}, answer \in BOOLEAN :
           mutateSettles(i, o, answer)
    \/ \E r \in LoadableReceipts : receiptChanged(r)
    \/ \E kind \in NavigationKinds, answer \in BOOLEAN : navigate(kind, answer)
    \/ \E answer \in BOOLEAN : onPopState(answer)
    \/ \E r \in LoadableReceipts : receiptLoaded(r)
    \/ \E result \in UploadResults, answer \in BOOLEAN :
           handleUploadSuccess(result, answer)
    \/ \E res \in LookupOutcomes, ok, answer \in BOOLEAN :
           uploadLookupSettles(res, ok, answer)
    \/ \E o \in {"deleted", "failed"}, answer \in BOOLEAN :
           uploadDeleteSettles(o, answer)

AppSpec == Init /\ [][AppNext]_vars

-----------------------------------------------------------------------------
(* Properties *)

\* the body built by the handleSave that ran last
BuiltBody == inflight[Len(inflight)]
JustSaved == lastOp = <<"SAVE">>

\* the subtotal as the specification words it: price x quantity over the live items
\* plus the prices of the local items
RECURSIVE SumOver(_, _)
SumOver(S, f) ==
    IF S = {} THEN 0
    ELSE LET x == CHOOSE y \in S : TRUE IN f[x] + SumOver(S \ {x}, f)

StatedSubtotal ==
    SumOver(DOMAIN state.items,
            [i \in DOMAIN state.items |-> state.items[i].price * state.items[i].quantity])
    + SumOver(DOMAIN localItems, [i \in DOMAIN localItems |-> localItems[i].price])

StatedTax == IF receipt.tax = Null THEN 0 ELSE receipt.tax[1]

NothingFinancialChanged ==
    /\ DOMAIN state.priceCorrections = {}
    /\ Len(state.deletedItemIds) = 0
    /\ Len(localItems) = 0

FastPathApplies == receipt.total_verified /\ NothingFinancialChanged

HasEffectiveTotal == state.manualTotal # Null \/ receipt.total # Null

EffectiveTotal ==
    IF state.manualTotal # Null THEN state.manualTotal[1] ELSE receipt.total[1]

Verdict == verifyStatus(receipt, state, localItems)

\* C1: a save payload built for a verified receipt carries manual_total null,
\* whatever manual total the state holds; a non-null manual_total is only
\* ever emitted for an unverified receipt.
C1_VerifiedPayloadHasNoManualTotal ==
    JustSaved =>
        /\ IsVerified(receipt) => BuiltBody.manual_total = Null
        /\ BuiltBody.manual_total # Null => receipt.status # "verified"

\* a verified receipt without baseline total whose manual total was entered,
\* saved
C1_Witness ==
    /\ JustSaved
    /\ IsVerified(receipt)
    /\ receipt.total = Null
    /\ state.manualTotal # Null
    /\ BuiltBody.manual_total = Null

\* C2: the save payload mirrors the edits made since the last Reset: the
\* three correction maps hold exactly the items the user set, each with the
\* last value set; deleted_item_ids is exactly the deleted set; new_items is
\* the local-item list in order without the temporary ids.
C2_PayloadMirrorsEdits ==
    JustSaved =>
        /\ BuiltBody.corrections = touched.category
        /\ BuiltBody.price_corrections = touched.price
        /\ BuiltBody.name_corrections = touched.name
        /\ Range(BuiltBody.deleted_item_ids) = touched.deleted
        /\ Len(BuiltBody.deleted_item_ids) = Cardinality(touched.deleted)
        /\ Len(BuiltBody.new_items) = Len(localItems)
        /\ \A i \in 1..Len(localItems) :
              /\ DOMAIN BuiltBody.new_items[i] = {"name", "price", "category"}
              /\ BuiltBody.new_items[i].name = localItems[i].name
              /\ BuiltBody.new_items[i].price = localItems[i].price
              /\ BuiltBody.new_items[i].category = localItems[i].category

\* a payload with a correction of one item, the other untouched and deleted
C2_Witness ==
    /\ JustSaved
    /\ DOMAIN BuiltBody.corrections = {1}
    /\ BuiltBody.deleted_item_ids = <<2>>
    /\ DOMAIN BuiltBody.price_corrections = {}

\* C3: for an unapproved receipt isDirty is true exactly when a correction
\* map, the deleted set or the local-item list is non-empty or a header
\* differs from the baseline; it is false for an untouched state.
C3_DirtyUnapproved ==
    /\ isDirty(state, localItems, storeName, receiptDate, receipt, FALSE)
         <=> \/ Cardinality(DOMAIN state.categoryCorrections) > 0
             \/ Cardinality(DOMAIN state.priceCorrections) > 0
             \/ Cardinality(DOMAIN state.nameCorrections) > 0
             \/ state.deletedItemIds # <<>>
             \/ localItems # <<>>
             \/ storeName # (IF receipt.store_name = NullStr THEN "" ELSE receipt.store_name)
             \/ receiptDate # (IF receipt.receipt_date = NullStr THEN "" ELSE receipt.receipt_date)
    /\ lastOp = <<"init">> =>
         ~isDirty(state, localItems, storeName, receiptDate, receipt, FALSE)

\* a state dirty only because a local item was added
C3_Witness ==
    /\ localItems # <<>>
    /\ touched = EmptyTouched
    /\ storeName = CoalesceStr(receipt.store_name, "")
    /\ receiptDate = CoalesceStr(receipt.receipt_date, "")
    /\ isDirty(state, localItems, storeName, receiptDate, receipt, FALSE)

\* C4: for an approved receipt isDirty is true exactly when the category
\* map is non-empty or a header differs from the baseline; price and name
\* corrections, deletions and local items never make it true, and it is
\* false for an untouched state.
C4_DirtyApproved ==
    /\ isDirty(state, localItems, storeName, receiptDate, receipt, TRUE)
         <=> \/ Cardinality(DOMAIN state.categoryCorrections) > 0
             \/ storeName # (IF receipt.store_name = NullStr THEN "" ELSE receipt.store_name)
             \/ receiptDate # (IF receipt.receipt_date = NullStr THEN "" ELSE receipt.receipt_date)
    /\ lastOp = <<"init">> =>
         ~isDirty(state, localItems, storeName, receiptDate, receipt, TRUE)

\* a state with an edited store-name header and no category correction,
\* dirty under the approved policy
C4_Witness ==
    /\ DOMAIN state.categoryCorrections = {}
    /\ storeName # CoalesceStr(receipt.store_name, "")
    /\ receiptDate = CoalesceStr(receipt.receipt_date, "")
    /\ isDirty(state, localItems, storeName, receiptDate, receipt, TRUE)

\* the worked example: one item of 100.00, no tax, the given total
ExampleVerdict(t) ==
    LET r == [id |-> 1, store_name |-> NullStr, receipt_date |-> NullStr,
              status |-> "pending", total |-> Some(t), tax |-> Some(0),
              total_verified |-> FALSE, verification_message |-> NullStr,
              items |-> << [id |-> 1, raw_name |-> "A", clean_name |-> "A",
                            category |-> "Other", category_source |-> "ai",
                            price |-> 100000, quantity |-> 1, receipt_id |-> 1] >>]
    IN  verifyStatus(r, initialState(r), <<>>)

\* C5: off the fast path and with an effective total, the verdict is
\* Balanced exactly when |subtotal + tax - total| < 0.02; subtotal 100.00,
\* tax 0.00, total 100.01 is Balanced.
C5_BalancedWithinTolerance ==
    /\ (~FastPathApplies /\ HasEffectiveTotal) =>
          (Verdict = "balanced"
             <=> Abs(StatedSubtotal + StatedTax - EffectiveTotal) < 20)
    /\ ExampleVerdict(100010) = "balanced"

\* off the fast path, a sum 0.019 away from the total is Balanced
C5_Witness ==
    /\ ~FastPathApplies
    /\ HasEffectiveTotal
    /\ Abs(StatedSubtotal + StatedTax - EffectiveTotal) = 19
    /\ Verdict = "balanced"

\* C6 as stated: on the fast path the verdict is Balanced and its detail is
\* the baseline verification message.
C6_Original ==
    FastPathApplies =>
        /\ Verdict = "balanced"
        /\ verify(receipt, state, localItems).verifyDetail = <<receipt.verification_message>>

\* the verdict steps 2 to 4 give
ComputedVerdict ==
    IF HasEffectiveTotal /\ Abs(StatedSubtotal + StatedTax - EffectiveTotal) < 20
    THEN "balanced"
    ELSE IF HasEffectiveTotal THEN "warn" ELSE "fail"

\* C6 (amended): when the baseline total_verified flag is true and there is no
\* price correction, deletion or local item, the verdict is Balanced whatever
\* the subtotal, tax, manual total and category or name corrections are, and
\* its detail is the baseline verification message when the baseline has one,
\* "Total: " with the baseline total (0 if none) otherwise; with any price
\* correction, deletion or local item the verdict is the computed one.
C6_FastPath ==
    /\ FastPathApplies =>
          /\ Verdict = "balanced"
          /\ verify(receipt, state, localItems).verifyDetail =
                IF receipt.verification_message # NullStr
                THEN <<receipt.verification_message>>
                ELSE <<"Total: ", IF receipt.total = Null THEN 0 ELSE receipt.total[1]>>
    /\ ~NothingFinancialChanged => Verdict = ComputedVerdict

\* the fast path answering Balanced although no total exists at all, with a
\* name correction pending
C6_Witness ==
    /\ FastPathApplies
    /\ ~HasEffectiveTotal
    /\ DOMAIN state.nameCorrections # {}
    /\ Verdict = "balanced"

\* C7: off the fast path, with an effective total and
\* |subtotal + tax - total| >= 0.02, the verdict is Warning and the exposed
\* difference is total - subtotal - tax.
C7_WarningDifference ==
    (/\ ~FastPathApplies
     /\ HasEffectiveTotal
     /\ Abs(StatedSubtotal + StatedTax - EffectiveTotal) >= 20) =>
        /\ Verdict = "warn"
        /\ difference(receipt, state, localItems)
             = <<EffectiveTotal - StatedSubtotal - StatedTax>>

\* a Warning whose items exceed the total: the difference is negative
C7_Witness ==
    /\ Verdict = "warn"
    /\ difference(receipt, state, localItems) # Null
    /\ difference(receipt, state, localItems)[1] < 0

\* C8: the verdict is Failed exactly when the fast path does not apply and
\* both the manual total and the baseline total are null; the verdict is
\* always one of Balanced, Warning and Failed.
C8_FailedIffNoTotal ==
    /\ Verdict \in {"balanced", "warn", "fail"}
    /\ Verdict = "fail"
         <=> (~FastPathApplies /\ state.manualTotal = Null /\ receipt.total = Null)

\* a receipt without baseline total is no longer Failed once a manual total
\* was entered
C8_Witness ==
    /\ receipt.total = Null
    /\ state.manualTotal # Null
    /\ ~FastPathApplies
    /\ Verdict # "fail"

\* C9: accepting the Adjustment offered on a Warning adds exactly one local
\* item named "Adjustment", priced at the difference rounded to the nearest
\* cent, and the verdict recomputed afterwards is Balanced.
C9_AdjustmentRebalances ==
    [][onAddDifference =>
        LET d == difference(receipt, state, localItems)[1]
            n == Len(localItems')
        IN  /\ Verdict = "warn"
            /\ n = Len(localItems) + 1
            /\ \A i \in 1..Len(localItems) : localItems'[i] = localItems[i]
            /\ localItems'[n].name = "Adjustment"
            /\ localItems'[n].price % 10 = 0
            /\ 2 * Abs(localItems'[n].price - d) <= 10
            /\ verifyStatus(receipt', state', localItems') = "balanced"]_vars

\* an Adjustment was just added whose price is not the exact difference (the
\* difference was not a whole number of cents), and the receipt balances
C9_Witness ==
    /\ lastOp = <<"ADD_DIFFERENCE">>
    /\ localItems # <<>>
    /\ localItems[Len(localItems)].name = "Adjustment"
    /\ difference(receipt, state, localItems) \notin {Null, <<0>>}
    /\ Verdict = "balanced"

\* C10: SET_CATEGORY(itemId, category) on a live item maps itemId to category
\* in the category-correction map, gives the live item that category and
\* category_source "manual" at once, and leaves every other live item as it
\* was.
C10_SetCategory ==
    [][\A itemId \in ItemIds, category \in Categories :
         handleCategoryChange(itemId, category) =>
            /\ itemId \in DOMAIN state'.categoryCorrections
            /\ state'.categoryCorrections[itemId] = category
            /\ Len(state'.items) = Len(state.items)
            /\ \A i \in 1..Len(state.items) :
                  IF state.items[i].id = itemId
                  THEN /\ state'.items[i].id = itemId
                       /\ state'.items[i].category = category
                       /\ state'.items[i].category_source = "manual"
                  ELSE state'.items[i] = state.items[i]]_vars

\* item 1 was just re-categorised: it is tagged manual, and item 2 keeps its
\* learned tag
C10_Witness ==
    /\ lastOp = <<"SET_CATEGORY", 1>>
    /\ \E i \in 1..Len(state.items) :
          /\ state.items[i].id = 1
          /\ state.items[i].category_source = "manual"
          /\ state.items[i].category \in Categories
    /\ \E i \in 1..Len(state.items) :
          /\ state.items[i].id = 2
          /\ state.items[i].category_source = "learned"

-----------------------------------------------------------------------------
(* Properties of the reducer, over the runs of ReducerSpec *)

\* the step just taken dispatched action a
Dispatched(a) == steps' = steps + 1 /\ lastOp' = <<"DISPATCH", a>>

\* the action the last step dispatched, if any
LastDispatch(type) ==
    /\ Len(lastOp) = 2
    /\ lastOp[1] = "DISPATCH"
    /\ lastOp[2].type = type

LiveIdsOf(s) == {s.items[i].id : i \in 1..Len(s.items)}

\* the items of a list without those of the given id, in their order
RECURSIVE Without(_, _)
Without(items, id) ==
    IF items = <<>> THEN <<>>
    ELSE IF Head(items).id = id THEN Without(Tail(items), id)
    ELSE <<Head(items)>> \o Without(Tail(items), id)

NoDuplicates(seq) == \A i, j \in 1..Len(seq) : seq[i] = seq[j] => i = j

\* C11: SET_CATEGORY with an itemId absent from the live item list has no
\* effect: the state returned is the state given, and no entry is added to
\* the category-correction map.
C11_AbsentIdNoOp ==
    [][\A a \in ReviewActions :
          (Dispatched(a) /\ a.type = "SET_CATEGORY" /\ a.itemId \notin LiveIdsOf(state))
              => state' = state]_vars

\* C12: DELETE_ITEM(itemId) adds itemId to the deleted set and removes it from
\* the live item list, the remaining items keeping their order; deleting the
\* same id again changes neither the deleted set (nor its size) nor the list.
C12_DeleteItem ==
    [][\A a \in ReviewActions :
          (Dispatched(a) /\ a.type = "DELETE_ITEM") =>
              LET again == reviewReducer(state', a)
              IN  /\ Range(state'.deletedItemIds) = Range(state.deletedItemIds) \cup {a.itemId}
                  /\ NoDuplicates(state'.deletedItemIds)
                  /\ state'.items = Without(state.items, a.itemId)
                  /\ state'.categoryCorrections = state.categoryCorrections
                  /\ state'.priceCorrections = state.priceCorrections
                  /\ state'.nameCorrections = state.nameCorrections
                  /\ state'.manualTotal = state.manualTotal
                  /\ Range(again.deletedItemIds) = Range(state'.deletedItemIds)
                  /\ Len(again.deletedItemIds) = Len(state'.deletedItemIds)
                  /\ again.items = state'.items
                  /\ (a.itemId \in Range(state.deletedItemIds) =>
                         /\ Len(state'.deletedItemIds) = Len(state.deletedItemIds)
                         /\ state'.items = state.items)]_vars

\* the same item was deleted twice in a row: one entry, one item left
C12_Witness ==
    /\ LastDispatch("DELETE_ITEM")
    /\ steps = 2
    /\ state.deletedItemIds = <<lastOp[2].itemId>>
    /\ Len(state.items) = 1
    /\ lastOp[2].itemId \in ItemIds

\* C13: from any state RESET(receipt) yields empty correction maps, an empty
\* deleted set, the items of the receipt and its total (null when it has
\* none) as manual total; nothing of the previous state survives.
C13_Reset ==
    [][\A a \in ReviewActions :
          (Dispatched(a) /\ a.type = "RESET") =>
              /\ DOMAIN state'.categoryCorrections = {}
              /\ DOMAIN state'.priceCorrections = {}
              /\ DOMAIN state'.nameCorrections = {}
              /\ state'.deletedItemIds = <<>>
              /\ state'.items = a.receipt.items
              /\ state'.manualTotal = a.receipt.total]_vars

\* a reset to a receipt without total, after an edit
C13_Witness ==
    /\ LastDispatch("RESET")
    /\ steps = 2
    /\ lastOp[2].receipt.total = Null
    /\ receipt.total # Null
    /\ state.manualTotal = Null
    /\ state.items = BaseItems

\* C14: an action of an unrecognized type leaves the state untouched: the
\* reducer returns the state it was given, no field changes.
C14_UnknownAction ==
    [][\A a \in ReviewActions :
          (Dispatched(a) /\ a.type \in UnknownTypes) => state' = state]_vars

\* an unknown action was dispatched to a state holding a correction
C14_Witness ==
    /\ LastDispatch("UNKNOWN")
    /\ steps = 2
    /\ DOMAIN state.categoryCorrections # {}

\* C15: SET_PRICE records unitPrice under itemId in the price-correction map
\* and sets the live item's price; SET_NAME records name under itemId in the
\* name-correction map and sets the live item's clean name; a later correction
\* of the same field of the same item overwrites the earlier one in both.
C15_SetPriceSetName ==
    [][\A a \in ReviewActions :
          /\ (Dispatched(a) /\ a.type = "SET_PRICE") =>
                /\ DOMAIN state'.priceCorrections =
                       DOMAIN state.priceCorrections \cup {a.itemId}
                /\ state'.priceCorrections[a.itemId] = a.unitPrice
                /\ \A k \in DOMAIN state.priceCorrections \ {a.itemId} :
                       state'.priceCorrections[k] = state.priceCorrections[k]
                /\ Len(state'.items) = Len(state.items)
                /\ \A i \in 1..Len(state.items) :
                       state'.items[i] =
                           IF state.items[i].id = a.itemId
                           THEN [state.items[i] EXCEPT !.price = a.unitPrice]
                           ELSE state.items[i]
                /\ state'.nameCorrections = state.nameCorrections
                /\ state'.categoryCorrections = state.categoryCorrections
          /\ (Dispatched(a) /\ a.type = "SET_NAME") =>
                /\ DOMAIN state'.nameCorrections =
                       DOMAIN state.nameCorrections \cup {a.itemId}
                /\ state'.nameCorrections[a.itemId] = a.name
                /\ \A k \in DOMAIN state.nameCorrections \ {a.itemId} :
                       state'.nameCorrections[k] = state.nameCorrections[k]
                /\ Len(state'.items) = Len(state.items)
                /\ \A i \in 1..Len(state.items) :
                       state'.items[i] =
                           IF state.items[i].id = a.itemId
                           THEN [state.items[i] EXCEPT !.clean_name = a.name]
                           ELSE state.items[i]
                /\ state'.priceCorrections = state.priceCorrections
                /\ state'.categoryCorrections = state.categoryCorrections]_vars

\* a second price correction of item 1 replaced the first in map and item
C15_Witness ==
    /\ LastDispatch("SET_PRICE")
    /\ steps = 2
    /\ lastOp[2].itemId = 1
    /\ lastOp[2].unitPrice = 2495
    /\ state.priceCorrections = (1 :> 2495)
    /\ state.items[1].price = 2495

-----------------------------------------------------------------------------
(* Properties of the page: allocator, save requests and their outcomes *)

LocalIds == [i \in 1..Len(localItems) |-> localItems[i]._tempId]

\* C16: over the whole run, whatever the interleaving of adding and deleting
\* local items and of resets, the k-th call of nextTempId returned -k: the
\* ids start at -1, are negative and strictly decreasing, none is issued
\* twice, and no two local items share a temporary id.
C16_AllocatorIds ==
    /\ \A k \in 1..Len(issued) : issued[k] = -k
    /\ \A i \in 1..Len(localItems) : LocalIds[i] \in Range(issued)
    /\ NoDuplicates(LocalIds)
    /\ \A i, j \in 1..Len(localItems) : i < j => LocalIds[i] > LocalIds[j]

\* an item was added, deleted, and another added: the second one got -2
C16_Witness ==
    /\ issued = <<-1, -2>>
    /\ Len(localItems) = 1
    /\ localItems[1]._tempId = -2

\* the step just taken is a call of handleSave
SaveRequested ==
    /\ steps' = steps + 1
    /\ lastOp' \in {<<"SAVE">>, <<"SAVE_REJECTED">>}

\* C17: a save requested on an unapproved receipt while the date header is
\* empty is rejected locally: no payload is built and onSave is not called,
\* the date error is raised, and the reducer state, the local items and the
\* busy flag are left as they were.
C17_EmptyDateRejected ==
    [][(SaveRequested /\ receiptDate = "" /\ ~IsVerified(receipt)) =>
          /\ lastOp' = <<"SAVE_REJECTED">>
          /\ inflight' = inflight
          /\ dateError' = TRUE
          /\ state' = state
          /\ localItems' = localItems
          /\ saving' = saving
          /\ route' = route
          /\ refetchDue' = refetchDue]_vars

\* a dirty session without date whose save was rejected
C17_Witness ==
    /\ lastOp = <<"SAVE_REJECTED">>
    /\ dateError
    /\ receiptDate = ""
    /\ inflight = <<>>
    /\ DOMAIN state.categoryCorrections # {}

\* C18: while a save is in flight no second save can be triggered by any of
\* the triggers (footer buttons, topbar events), so at most one onSave call
\* is pending at any time.
C18_OneSaveInFlight == Len(inflight) <= 1

\* the step just taken settled a pending save as failed
SaveFailed ==
    /\ Len(inflight') = Len(inflight) - 1
    /\ lastOp' = <<"SETTLED", "failed">>

\* C19: when the save fails the busy flag is cleared and the correction maps,
\* the deleted set, the manual total, the local items and the headers are
\* left as they are, so that a retry builds the payload the failed request
\* carried.
C19_FailureKeepsEdits ==
    [][SaveFailed =>
          /\ saving' = FALSE
          /\ state' = state
          /\ localItems' = localItems
          /\ storeName' = storeName
          /\ receiptDate' = receiptDate
          /\ receipt' = receipt
          /\ route' = route
          /\ refetchDue' = refetchDue
          /\ (lastOp = <<"SAVE">> /\ Len(inflight) = 1 =>
                 BuildBody(receipt', state', localItems', storeName', receiptDate',
                           inflight[1].approve) = inflight[1])]_vars

\* a save of a session with a local item failed and the item is still there
C19_Witness ==
    /\ lastOp = <<"SETTLED", "failed">>
    /\ ~saving
    /\ inflight = <<>>
    /\ Len(localItems) = 1
    /\ Mounted

\* the session holds no edit
SessionClean ==
    /\ DOMAIN state.categoryCorrections = {}
    /\ DOMAIN state.priceCorrections = {}
    /\ DOMAIN state.nameCorrections = {}
    /\ state.deletedItemIds = <<>>
    /\ localItems = <<>>
    /\ ~isDirty(state, localItems, storeName, receiptDate, receipt, IsVerified(receipt))

\* C20: after every successful save that does not approve, the baseline is
\* replaced and the session reset, for a receipt opened from the list and for
\* a fresh upload alike: once such a save has settled and no replacement of
\* the baseline is pending any more, the correction maps, the deleted set and
\* the local items are empty and isDirty is false.
C20_ResetAfterSave ==
    (/\ Mounted
     /\ refetchDue
     /\ inflight = <<>>
     /\ ~ENABLED (\E r \in Receipts : receiptChanged(r)))
        => SessionClean

-----------------------------------------------------------------------------
(* Properties of the duplicate guard *)

\* the step just taken called checkDuplicates with these arguments
LookupCalled(tot, rDate, excludeId) ==
    /\ steps' = steps + 1
    /\ Len(lastOp') = 3
    /\ lastOp'[1] = "CHECK_DUPLICATES"
    /\ lastOp'[2] = [total |-> tot, receiptDate |-> rDate, excludeId |-> excludeId]

\* C25: a duplicate lookup asked with a missing total or a missing or empty
\* date returns an empty result and sends nothing to the backend.
C25_EmptyInputShortCircuits ==
    [][\A t \in LookupTotals, d \in LookupDates, x \in LookupIds :
          (LookupCalled(t, d, x) /\ (t = Null \/ d = NullStr \/ d = "")) =>
              /\ calls' = calls
              /\ lastOp'[3] = "empty"]_vars

\* a lookup with total and date went out, then one with an empty date did not
C25_Witness ==
    /\ Len(lastOp) = 3
    /\ lastOp[1] = "CHECK_DUPLICATES"
    /\ lastOp[2].receiptDate = ""
    /\ lastOp[2].total # Null
    /\ lastOp[3] = "empty"
    /\ Len(calls) = 1

-----------------------------------------------------------------------------
(* Properties of the save payload *)

LastBody(q) == q[Len(q)]

\* C28: the approve field of a body that goes out is the flag handleSave was
\* called with (Save sends false, Approve sends true), and a verified session
\* never sends approve = true.
C28_ApproveFlag ==
    [][\A via \in {"footer", "topbar"}, ap \in BOOLEAN :
          (handleSave(via, ap) /\ lastOp' = <<"SAVE">>)
              => /\ LastBody(inflight').approve = ap
                 /\ (IsVerified(receipt) => ~LastBody(inflight').approve)]_vars

\* an approving save and a draft save have both gone out
C28_Witness ==
    /\ JustSaved
    /\ \E i, j \in 1..Len(inflight) : inflight[i].approve /\ ~inflight[j].approve

\* C30: a save request leaves the corrections, the local items and the headers
\* as they were, and a second request made from the same state with the same
\* flag puts an identical body in flight (same order of new_items and of
\* deleted_item_ids).
C30_BuildIsPure ==
    [][lastOp' = <<"SAVE">>
          => /\ state' = state
             /\ localItems' = localItems
             /\ storeName' = storeName
             /\ receiptDate' = receiptDate
             /\ receipt' = receipt
             /\ (JustSaved /\ LastBody(inflight').approve = LastBody(inflight).approve)
                    => LastBody(inflight') = LastBody(inflight)]_vars

\* two requests in a row carried the same body, with a local item in it
C30_Witness ==
    /\ JustSaved
    /\ Len(inflight) = 2
    /\ inflight[1] = inflight[2]
    /\ Len(inflight[2].new_items) > 0

-----------------------------------------------------------------------------
(* Properties of the duplicate guard, navigation and the upload flow, over  *)
(* the runs of AppSpec                                                      *)

SaveCalls == {k \in 1..Len(calls) : calls[k].op = "save"}
DeleteCalls == {k \in 1..Len(calls) : calls[k].op = "delete"}

EditsUnchanged ==
    /\ state' = state
    /\ localItems' = localItems
    /\ storeName' = storeName
    /\ receiptDate' = receiptDate

\* C22: when the lookup made for a save returns matches, save.mutateAsync is
\* called only if the user confirmed; on cancel no call is made, the request
\* is dropped for good and the pending edits stay as they were.
C22_MatchesNeedConfirmation ==
    [][\A i \in 1..Len(flows), ok \in BOOLEAN :
          lookupSettles(i, "matches", ok)
              => /\ (calls' # calls) => ok
                 /\ ok => calls' = Append(calls, SaveCall(flows[i].id, inflight[i]))
                 /\ ~ok => /\ calls' = calls
                           /\ flows' = RemoveAt(flows, i)
                           /\ EditsUnchanged]_vars

\* a save was cancelled at the confirm; the category edit is still pending and
\* nothing was saved
C22_Witness ==
    /\ \E i \in 1..MaxSteps : lastOp = <<"SAVE_CANCELLED", i>>
    /\ DOMAIN state.categoryCorrections # {}
    /\ SaveCalls = {}
    /\ flows = <<>>

\* C24: a lookup that fails does what a lookup without matches does: at save
\* time save.mutateAsync is called with the body the page built, at upload
\* time the review session is opened.
C24_LookupFailureDoesNotBlock ==
    [][/\ \A i \in 1..Len(flows), ok \in BOOLEAN :
             lookupSettles(i, "failed", ok)
                 => calls' = Append(calls, SaveCall(flows[i].id, inflight[i]))
       /\ \A ok, answer \in BOOLEAN :
             uploadLookupSettles("failed", ok, answer)
                 => /\ isFreshUpload'
                    /\ receipt' = FreshReceipt(upload.result)
                    /\ \E p, g \in BOOLEAN : lastOp' = <<"UPLOAD_OPENED", p, g>>
                    /\ (~DirtyFlag \/ answer)
                          => (route' = "review"
                                /\ routeId' = Some(upload.result.receipt_id))]_vars

\* a save went on to persistence after its lookup failed
C24_Witness ==
    /\ \E i \in 1..MaxSteps, ok \in BOOLEAN : lastOp = <<"LOOKUP_DONE", "failed", i, ok>>
    /\ SaveCalls # {}

\* C26: when the upload-time lookup returns matches and the user cancels,
\* deleteReceipt is called once for the new receipt, and neither then nor when
\* the delete settles (deleted or failed) is the fresh result stored or the
\* route changed.
C26_CancelledUploadIsDiscarded ==
    [][/\ \A answer \in BOOLEAN :
             uploadLookupSettles("matches", FALSE, answer)
                 => /\ calls' = Append(calls, DeleteCall(upload.result.receipt_id))
                    /\ UNCHANGED <<route, routeId, isFreshUpload, receipt, loading>>
       /\ \A o \in {"deleted", "failed"}, answer \in BOOLEAN :
             uploadDeleteSettles(o, answer)
                 => /\ UNCHANGED <<route, routeId, isFreshUpload, receipt, loading,
                                   calls>>
                    /\ Cardinality(DeleteCalls) = 1
                    /\ upload'.pc = "done"]_vars

\* the delete of a refused upload failed
C26_Witness ==
    /\ lastOp = <<"UPLOAD_DISCARDED", "failed">>
    /\ Cardinality(DeleteCalls) = 1
    /\ routeId # Some(upload.result.receipt_id)

\* C29: when a save with approve = true succeeds the route becomes the receipts
\* list and no prompt is raised; when a save with approve = false succeeds the
\* route stays where it is.
C29_ApproveLeavesDraftStays ==
    [][\A i \in 1..Len(flows), answer \in BOOLEAN :
          mutateSettles(i, "saved", answer)
              => IF flows[i].body.approve
                 THEN /\ route' = "receipts"
                      /\ lastOp' = <<"SAVE_DONE", "saved", TRUE, FALSE, TRUE>>
                 ELSE UNCHANGED <<route, routeId>>]_vars

\* an approving save of a session with a pending category edit succeeded
C29_Witness ==
    /\ lastOp = <<"SAVE_DONE", "saved", TRUE, FALSE, TRUE>>
    /\ route = "receipts"
    /\ DOMAIN state.categoryCorrections # {}

HasEdits ==
    \/ DOMAIN state.categoryCorrections # {}
    \/ DOMAIN state.priceCorrections # {}
    \/ DOMAIN state.nameCorrections # {}
    \/ Len(state.deletedItemIds) > 0

C21_OnlyResetAfterSaveClears ==
    [][(/\ Mounted /\ HasEdits
        /\ route' = "review" /\ routeId' = routeId
        /\ (~Mounted' \/ ~HasEdits'))
          => (lastOp' = <<"RESET">> /\ refetchDue)]_vars

LookupRequest(tot, rDate, excludeId) ==
    [op |-> "check-duplicates", total |-> tot[1], receipt_date |-> rDate,
     exclude_id |-> excludeId]

\* no lookup is pending while a save call is pending for the same receipt
NoLookupBesideSave ==
    \A i, j \in 1..Len(flows) :
        ~(flows[i].pc = "lookup" /\ flows[j].pc = "mutate" /\ flows[i].id = flows[j].id)

\* C23: when the save of a fresh-upload session is handed to save.mutateAsync
\* and an effective total and date exist, checkDuplicates has been called with
\* that total, that date and the receipt's id, and has settled; and a lookup
\* and a save are never pending together for one receipt.
C23_LookupBeforeSave ==
    [][/\ \A via \in {"footer", "topbar"}, ap \in BOOLEAN :
             (/\ requestSave(via, ap)
              /\ lastOp' = <<"SAVE">>
              /\ isFreshUpload
              /\ LastBody(flows').pc = "mutate")
                 => LET b == LastBody(inflight')
                        tot == LookupTotal(b, receipt)
                        date == LookupDate(b, receipt)
                    IN  (tot # Null /\ date # NullStr /\ date # "")
                           => \E k \in 1..Len(calls) :
                                 calls[k] = LookupRequest(tot, date, routeId)
       /\ NoLookupBesideSave']_vars

-----------------------------------------------------------------------------
(* Further properties of the page and the reducer *)

NoEdits ==
    /\ ~HasEdits
    /\ localItems = <<>>

\* C31: a null store_name of the baseline equals an empty store-name header and
\* a null receipt_date equals an empty date header: with nothing else edited
\* isDirty is false under the unapproved and under the approved policy.
C31_NullHeaderEqualsEmpty ==
    NoEdits =>
        /\ (/\ receipt.store_name = NullStr /\ storeName = ""
            /\ receiptDate = CoalesceStr(receipt.receipt_date, ""))
              => /\ ~isDirty(state, localItems, storeName, receiptDate, receipt, FALSE)
                 /\ ~isDirty(state, localItems, storeName, receiptDate, receipt, TRUE)
        /\ (/\ receipt.receipt_date = NullStr /\ receiptDate = ""
            /\ storeName = CoalesceStr(receipt.store_name, ""))
              => /\ ~isDirty(state, localItems, storeName, receiptDate, receipt, FALSE)
                 /\ ~isDirty(state, localItems, storeName, receiptDate, receipt, TRUE)

\* the store name of a baseline without one was typed and emptied again
C31_Witness ==
    /\ lastOp = <<"SET_STORE_NAME">>
    /\ steps = 2
    /\ receipt.store_name = NullStr
    /\ storeName = ""
    /\ receiptDate = ""
    /\ NoEdits
    /\ ~isDirty(state, localItems, storeName, receiptDate, receipt, FALSE)

\* the end-to-end scenario: an unverified baseline with total 50.00, tax 3.50
\* and one item at 3.99 x 1 whose price is corrected to 5.99, then saved
ScenarioReceipt ==
    [id |-> 7, store_name |-> "Costco", receipt_date |-> "2026-02-20",
     status |-> "pending", total |-> Some(50000), tax |-> Some(3500),
     total_verified |-> FALSE, verification_message |-> NullStr,
     items |-> << [id |-> 1, raw_name |-> "MILK", clean_name |-> "Milk",
                   category |-> "Dairy & Eggs", category_source |-> "ai",
                   price |-> 3990, quantity |-> 1, receipt_id |-> 7] >>]

ScenarioState ==
    reviewReducer(initialState(ScenarioReceipt),
                  [type |-> "SET_PRICE", itemId |-> 1, unitPrice |-> 5990])

ScenarioBody ==
    BuildBody(ScenarioReceipt, ScenarioState, <<>>, "Costco", "2026-02-20", FALSE)

\* the total was not overridden: onManualTotal is offered only when there is no
\* total at all, so an override always differs from the baseline total
TotalNotOverridden == state.manualTotal = receipt.total

\* C32 as stated: in the scenario the body carries price_corrections {1: 5.99}
\* and manual_total null, and the manual_total of every body is null as long as
\* the user has not overridden the baseline total.
C32_Original ==
    /\ ScenarioBody.price_corrections = [k \in {1} |-> 5990]
    /\ ScenarioBody.manual_total = Null
    /\ (JustSaved /\ TotalNotOverridden) => BuiltBody.manual_total = Null

\* C32: in the scenario the body carries price_corrections {1: 5.99} and
\* manual_total 50.00; the manual_total of a body built for an unverified
\* receipt whose total the user has not overridden is the baseline total (null
\* only if the baseline has none), and for a verified receipt it is null.
C32_ScenarioPayload ==
    /\ ScenarioBody.price_corrections = [k \in {1} |-> 5990]
    /\ ScenarioBody.manual_total = Some(50000)
    /\ (JustSaved /\ TotalNotOverridden) =>
          BuiltBody.manual_total = IF IsVerified(receipt) THEN Null ELSE receipt.total

\* a price was corrected and the body sent carries the baseline total, which
\* the user never touched
C32_Witness ==
    /\ JustSaved
    /\ DOMAIN state.priceCorrections # {}
    /\ TotalNotOverridden
    /\ receipt.total # Null
    /\ BuiltBody.manual_total = receipt.total

\* the difference exposed in the worked example: one item of 100.00, no tax,
\* the given total
ExampleDifference(t) ==
    LET r == [id |-> 1, store_name |-> NullStr, receipt_date |-> NullStr,
              status |-> "pending", total |-> Some(t), tax |-> Some(0),
              total_verified |-> FALSE, verification_message |-> NullStr,
              items |-> << [id |-> 1, raw_name |-> "A", clean_name |-> "A",
                            category |-> "Other", category_source |-> "ai",
                            price |-> 100000, quantity |-> 1, receipt_id |-> 1] >>]
    IN  difference(r, initialState(r), <<>>)

\* C33 as stated: subtotal 100.00, tax 0.00 and total 100.03 give Warning with
\* the difference -0.03, that is, a total above subtotal plus tax is exposed as
\* a negative difference.
C33_Original ==
    /\ ExampleVerdict(100030) = "warn"
    /\ ExampleDifference(100030) = Some(-30)
    /\ (/\ ~FastPathApplies
        /\ HasEffectiveTotal
        /\ EffectiveTotal - StatedSubtotal - StatedTax >= 20)
          => /\ Verdict = "warn"
             /\ difference(receipt, state, localItems)
                  = Some(StatedSubtotal + StatedTax - EffectiveTotal)

\* C33: subtotal 100.00, tax 0.00 and total 100.03 give Warning with the
\* difference +0.03; whenever, off the fast path, the total exceeds subtotal
\* plus tax by 0.02 or more, the verdict is Warning and the exposed difference
\* is that positive excess.
C33_WarningExcess ==
    /\ ExampleVerdict(100030) = "warn"
    /\ ExampleDifference(100030) = Some(30)
    /\ (/\ ~FastPathApplies
        /\ HasEffectiveTotal
        /\ EffectiveTotal - StatedSubtotal - StatedTax >= 20)
          => /\ Verdict = "warn"
             /\ difference(receipt, state, localItems) # Null
             /\ difference(receipt, state, localItems)[1] > 0
             /\ difference(receipt, state, localItems)[1]
                  = EffectiveTotal - StatedSubtotal - StatedTax

\* a Warning whose total exceeds the items and tax: the difference is positive
C33_Witness ==
    /\ ~FastPathApplies
    /\ Verdict = "warn"
    /\ difference(receipt, state, localItems) # Null
    /\ difference(receipt, state, localItems)[1] >= 20

\* the baseline items without the deleted ones, each with the entries of the
\* correction maps written over its fields
Corrected(it, s) ==
    [it EXCEPT
        !.category = IF it.id \in DOMAIN s.categoryCorrections
                     THEN s.categoryCorrections[it.id] ELSE @,
        !.category_source = IF it.id \in DOMAIN s.categoryCorrections
                            THEN "manual" ELSE @,
        !.price = IF it.id \in DOMAIN s.priceCorrections
                  THEN s.priceCorrections[it.id] ELSE @,
        !.clean_name = IF it.id \in DOMAIN s.nameCorrections
                       THEN s.nameCorrections[it.id] ELSE @]

WorkingView(items, s) ==
    LET kept == SelectSeq(items, LAMBDA it : it.id \notin Range(s.deletedItemIds))
    IN  [i \in 1..Len(kept) |-> Corrected(kept[i], s)]

\* C34: the live item list is the baseline item list without the deleted ids,
\* in baseline order, each remaining item carrying the category, price and
\* clean name of its correction-map entries (and category_source "manual" where
\* a category correction exists); no id is both deleted and live.
C34_LiveListIsCorrectedBaseline ==
    /\ state.items = WorkingView(receipt.items, state)
    /\ LiveIdsOf(state) \cap Range(state.deletedItemIds) = {}

\* one item deleted, the other one recategorised
C34_Witness ==
    /\ LastDispatch("SET_CATEGORY")
    /\ Len(state.deletedItemIds) = 1
    /\ Len(state.items) = 1
    /\ state.items[1].id \in DOMAIN state.categoryCorrections
    /\ state.items[1].category_source = "manual"

CategoryOnlyBody(b) ==
    /\ DOMAIN b.price_corrections = {}
    /\ DOMAIN b.name_corrections = {}
    /\ b.new_items = <<>>
    /\ b.deleted_item_ids = <<>>

\* C35: in a session on a verified receipt there is never a price correction,
\* a name correction, a deleted item or a local item (no offered action makes
\* one, the Adjustment included), and every body sent has empty
\* price_corrections, name_corrections, new_items and deleted_item_ids.
C35_VerifiedCategoryOnly ==
    IsVerified(receipt) =>
        /\ DOMAIN state.priceCorrections = {}
        /\ DOMAIN state.nameCorrections = {}
        /\ state.deletedItemIds = <<>>
        /\ localItems = <<>>
        /\ \A i \in 1..Len(inflight) : CategoryOnlyBody(inflight[i])

\* the save of a verified receipt with a category correction has gone out
C35_Witness ==
    /\ IsVerified(receipt)
    /\ JustSaved
    /\ DOMAIN BuiltBody.corrections # {}
    /\ CategoryOnlyBody(BuiltBody)

\* two items agree on every field outside the given ones
SameExcept(it, jt, fields) == \A f \in (DOMAIN it) \ fields : it[f] = jt[f]

\* the items of t are those of s, in the same order, the item of the given id
\* differing at most in the given fields
ItemsSameExcept(s, t, itemId, fields) ==
    /\ Len(t.items) = Len(s.items)
    /\ \A i \in 1..Len(s.items) :
          IF s.items[i].id = itemId
          THEN SameExcept(s.items[i], t.items[i], fields)
          ELSE t.items[i] = s.items[i]

\* map n is map m with at most the entry of key k written
MapSameExcept(m, n, k) ==
    /\ DOMAIN n \subseteq (DOMAIN m) \cup {k}
    /\ \A x \in DOMAIN m : x # k => (x \in DOMAIN n /\ n[x] = m[x])

\* C36: SET_CATEGORY changes only the category-correction map and the target
\* item's category and category_source; SET_PRICE only the price-correction map
\* and the target item's price; SET_NAME only the name-correction map and the
\* target item's clean name; SET_MANUAL_TOTAL only the manual total.  The other
\* maps, the deleted set, the manual total, the live ids and their order, and
\* every item's id, quantity and raw name stay as they were.
C36_EditFrames ==
    [][\A a \in ReviewActions :
          Dispatched(a) =>
              /\ a.type = "SET_CATEGORY" =>
                    /\ MapSameExcept(state.categoryCorrections,
                                     state'.categoryCorrections, a.itemId)
                    /\ ItemsSameExcept(state, state', a.itemId,
                                       {"category", "category_source"})
                    /\ state'.priceCorrections = state.priceCorrections
                    /\ state'.nameCorrections = state.nameCorrections
                    /\ state'.deletedItemIds = state.deletedItemIds
                    /\ state'.manualTotal = state.manualTotal
              /\ a.type = "SET_PRICE" =>
                    /\ MapSameExcept(state.priceCorrections,
                                     state'.priceCorrections, a.itemId)
                    /\ ItemsSameExcept(state, state', a.itemId, {"price"})
                    /\ state'.categoryCorrections = state.categoryCorrections
                    /\ state'.nameCorrections = state.nameCorrections
                    /\ state'.deletedItemIds = state.deletedItemIds
                    /\ state'.manualTotal = state.manualTotal
              /\ a.type = "SET_NAME" =>
                    /\ MapSameExcept(state.nameCorrections,
                                     state'.nameCorrections, a.itemId)
                    /\ ItemsSameExcept(state, state', a.itemId, {"clean_name"})
                    /\ state'.categoryCorrections = state.categoryCorrections
                    /\ state'.priceCorrections = state.priceCorrections
                    /\ state'.deletedItemIds = state.deletedItemIds
                    /\ state'.manualTotal = state.manualTotal
              /\ a.type = "SET_MANUAL_TOTAL" =>
                    /\ state' = [state EXCEPT !.manualTotal = a.total]]_vars

\* a name was corrected after a price: the raw name and the price correction
\* are still there
C36_Witness ==
    /\ LastDispatch("SET_NAME")
    /\ lastOp[2].itemId = 1
    /\ state.items[1].id = 1
    /\ state.items[1].clean_name = lastOp[2].name
    /\ state.items[1].raw_name = "MILK"
    /\ DOMAIN state.priceCorrections # {}

\* the ids the user corrected and later deleted (a correction is offered only
\* for a live item, so an id in both was corrected first)
CorrectedThenDeleted(field) == (DOMAIN touched[field]) \cap touched.deleted

\* C37: handleDeleteItem leaves the three correction maps and the manual total
\* as they were, so the body of a save made afterwards carries the id of an
\* item corrected before its deletion both as a key of the correction map and
\* in deleted_item_ids.
C37_DeleteKeepsCorrections ==
    [][/\ (\E id \in ItemIds : lastOp' = <<"DELETE_ITEM", id>> /\ steps' = steps + 1)
            => /\ state'.categoryCorrections = state.categoryCorrections
               /\ state'.priceCorrections = state.priceCorrections
               /\ state'.nameCorrections = state.nameCorrections
               /\ state'.manualTotal = state.manualTotal
       /\ lastOp' = <<"SAVE">>
            => LET b == LastBody(inflight')
               IN  /\ CorrectedThenDeleted("category") \subseteq DOMAIN b.corrections
                   /\ CorrectedThenDeleted("price") \subseteq DOMAIN b.price_corrections
                   /\ CorrectedThenDeleted("name") \subseteq DOMAIN b.name_corrections
                   /\ touched.deleted \subseteq Range(b.deleted_item_ids)]_vars

\* the price of an item was corrected, the item deleted, and the body sent
\* names it in price_corrections and in deleted_item_ids
C37_Witness ==
    /\ JustSaved
    /\ \E id \in DOMAIN BuiltBody.price_corrections :
           id \in Range(BuiltBody.deleted_item_ids)

BodiesSent == {calls[k].body : k \in SaveCalls}

\* C39: when the RESET that follows a successful save runs, every category
\* correction and every local item of the session is in a body that was sent
\* or is still pending after the RESET.
C39_NoEditLostAcrossSave ==
    [][lastOp' = <<"RESET">>
          => /\ \A id \in DOMAIN touched.category :
                   \/ \E b \in BodiesSent :
                         /\ id \in DOMAIN b.corrections
                         /\ b.corrections[id] = touched.category[id]
                   \/ /\ id \in DOMAIN state'.categoryCorrections
                      /\ state'.categoryCorrections[id] = touched.category[id]
             /\ \A i \in 1..Len(localItems) :
                   \/ \E b \in BodiesSent :
                         StripTempId(localItems[i]) \in Range(b.new_items)
                   \/ localItems[i] \in Range(localItems')]_vars

\* C40: every body handed to onSave has a receipt_date that is neither null nor
\* empty, for verified and unverified receipts alike, and its store_name is
\* null exactly when the store-name header is blank.
C40_DateAlwaysSent ==
    [][lastOp' = <<"SAVE">>
          => LET b == LastBody(inflight')
             IN  /\ b.receipt_date # NullStr
                 /\ b.receipt_date # ""
                 /\ b.receipt_date = receiptDate
                 /\ (b.store_name = NullStr) <=> (storeName = "")
                 /\ (storeName # "") => b.store_name = storeName]_vars

\* a body went out with a date and without store name
C40_Witness ==
    /\ JustSaved
    /\ storeName = ""
    /\ BuiltBody.store_name = NullStr
    /\ BuiltBody.receipt_date = "2026-03-01"

=============================================================================
